---------------------------- MODULE Spec2Model ----------------------------
(***************************************************************************)
(* Sutra: a mesh of agents that reconcile knowledge packets (k-paks) by a  *)
(* trust rule, persist accepted k-paks in a write-ahead log, gossip them   *)
(* to their peers and garbage-collect expired ones.                        *)
(*                                                                         *)
(* Abstractions.  A float32 confidence is an integer number of hundredths. *)
(* A SHA-256 prefix is modelled by the string that is hashed (the hash is  *)
(* taken to be injective on the values that occur).  A JSON text is the    *)
(* tuple of the member values in struct order.  Unix time is the variable  *)
(* now.                                                                    *)
(***************************************************************************)
EXTENDS Integers, Sequences, FiniteSets, Bags, TLC

\* ------------------------------------------------------------------ bounds
MaxClock == 2
MaxCalls == 2
MaxStreamLen == 2
MaxRestarts == 1
MaxLog == 3
MaxRounds == 1
MaxTaskCalls == 4

\* ------------------------------------------------------------ value sets
Nodes == {"n1", "n2", "n3"}
Streams == {"s1", "s2"}

VARIABLES
    now,            \* time.Now().Unix()
    engine,         \* per node: [truthStore, subjectIndex]
    ret,            \* return value of the last direct Engine.Reconcile call
    hist,           \* direct Engine calls since the last purge: [kpak, accepted, pre, post]
    base,           \* truthStore when hist was last emptied
    ncalls,         \* number of direct Engine.Reconcile calls so far
    removed,        \* return value of the last direct Engine.RemoveExpiredKpaks call
    config,         \* per node: [DefaultTTLSeconds, GCEnabled]
    agent,          \* per node: position in the agent's lifecycle
    wal,            \* per node: the lines of the log file
    walOpen,        \* per node: WAL.file is not nil
    members,        \* per node: memberlist.Members()
    net,            \* bag of datagrams in flight: [dst, data]
    handler,        \* per node: k-pak the gossip handler accepted and has yet to log
    stream,         \* per Ingest stream: position, locals (kpak, accepted, rejected,
                    \* errors) and a record of its steps and of the k-paks it got
    everAccepted,   \* k-paks that some node's Ingest accepted: reconciled and logged
    appendFailed,   \* per node: some WAL append failed
    snapshot,       \* per node: truthStore when the agent last shut down
    replayed,       \* per node: the store is as rebuilt by the last replay, up to purges
    restarts,       \* number of process restarts so far
    loaded,         \* per node: what each loadFromWAL call of the agent reported:
                    \* [kpaks, accepted, err]
    walExists,      \* per node: the log file is there (NewWAL creates it)
    lastCall,       \* per node: the last Start or Shutdown call that returned:
                    \* [op, err, at]
    gc,             \* per node, the GarbageCollector: [running, closed (stopChan
                    \* is closed), loops (live run goroutines)]
    caller,         \* per goroutine that calls the collector's Start and Stop
                    \* directly: its position
    loading,        \* per node: the k-paks wal.Load returned that the loop of
                    \* loadFromWAL has yet to reconcile
    thread,         \* per goroutine of the agent under lock-level study: its
                    \* position, the mutexes it holds in the order it took
                    \* them, and its locals
    metrics         \* per node, Agent.metrics: the four counters and the
                    \* sources seen

engineVars == <<ret, hist, base, ncalls, removed>>
meshVars == <<config, agent, wal, walOpen, members, net, handler, stream,
              everAccepted, appendFailed, snapshot, replayed, restarts, loaded,
              walExists, lastCall, gc, caller, loading, thread, metrics>>
vars == <<now, engine, ret, hist, base, ncalls, removed, config, agent, wal,
          walOpen, members, net, handler, stream, everAccepted, appendFailed, snapshot,
          replayed, restarts, loaded, walExists, lastCall, gc, caller,
          loading, thread, metrics>>

\* ---------------------------------------------------------------- k-paks
\* The text between the "|" characters of a string: the strings of the model
\* that hold a "|" are listed, any other string is one part
Parts(str) ==
    IF str = "a|b" THEN <<"a", "b">>
    ELSE IF str = "b|c" THEN <<"b", "c">>
    ELSE <<str>>

\* fmt.Sprintf("%s|%s|%v|%s|%f|%d", ...) hashed, first 16 hex characters: the
\* formatted text is its parts between the "|" characters; the hash is taken
\* to be free of collisions
generateID(k) ==
    Parts(k.subject) \o Parts(k.predicate) \o Parts(k.object) \o Parts(k.source)
        \o <<k.confidence, k.timestamp>>

\* fmt.Sprintf("%s|%s", Subject, Predicate) hashed, first 12 hex characters
GenerateSPID(k) == Parts(k.subject) \o Parts(k.predicate)

RegenerateComputedFields(k) ==
    [k EXCEPT !.id = generateID(k), !.spid = GenerateSPID(k)]

NewKpakWithTTL(subject, predicate, object, source, confidence, ttlSeconds, t) ==
    LET expiresAt == IF ttlSeconds > 0 THEN t + ttlSeconds ELSE 0
        k == [subject |-> subject, predicate |-> predicate, object |-> object,
              source |-> source, confidence |-> confidence, timestamp |-> t,
              expires_at |-> expiresAt, id |-> <<>>, spid |-> <<>>]
    IN  RegenerateComputedFields(k)

IsMoreTrustedThan_ConfidenceOnly(k, other) ==
    k.confidence > other.confidence

IsMoreTrustedThan_TieWins(k, other) ==
    IF k.confidence > other.confidence THEN TRUE
    ELSE IF k.confidence = other.confidence THEN k.timestamp >= other.timestamp
    ELSE FALSE

IsMoreTrustedThan(k, other) ==
    IF k.confidence > other.confidence THEN TRUE
    ELSE IF k.confidence = other.confidence THEN k.timestamp > other.timestamp
    ELSE FALSE

IsExpired_StrictlyAfter(k, t) ==
    k.expires_at # 0 /\ t > k.expires_at

IsExpired(k, t) ==
    IF k.expires_at = 0 THEN FALSE ELSE t >= k.expires_at

\* ----------------------------------------------------------------- engine
NewEngine == [truthStore |-> <<>>, subjectIndex |-> <<>>]

acceptKpak(e, k) ==
    LET old == IF k.subject \in DOMAIN e.subjectIndex
               THEN e.subjectIndex[k.subject] ELSE {}
    IN  [truthStore   |-> (k.spid :> k) @@ e.truthStore,
         subjectIndex |-> (k.subject :> (old \cup {k.spid})) @@ e.subjectIndex]

Reconcile_LastWriterWins(e, k) ==
    [engine |-> acceptKpak(e, k), accepted |-> TRUE]

Reconcile_ReplacesExpired(e, k) ==
    IF k.spid \notin DOMAIN e.truthStore
       \/ IsMoreTrustedThan(k, e.truthStore[k.spid])
       \/ IsExpired(e.truthStore[k.spid], k.timestamp)
    THEN [engine |-> acceptKpak(e, k), accepted |-> TRUE]
    ELSE [engine |-> e, accepted |-> FALSE]

\* Reconcile under the engine's write lock: the new engine and the result
Reconcile(e, k) ==
    IF k.spid \notin DOMAIN e.truthStore
    THEN [engine |-> acceptKpak(e, k), accepted |-> TRUE]
    ELSE IF IsMoreTrustedThan(k, e.truthStore[k.spid])
         THEN [engine |-> acceptKpak(e, k), accepted |-> TRUE]
         ELSE [engine |-> e, accepted |-> FALSE]

QueryBySubject(e, subject) ==
    IF subject \notin DOMAIN e.subjectIndex THEN {}
    ELSE {e.truthStore[s] : s \in (e.subjectIndex[subject] \cap DOMAIN e.truthStore)}

QueryBySubjectPredicate(e, subject, predicate) ==
    LET spid == GenerateSPID([subject |-> subject, predicate |-> predicate])
    IN  IF spid \in DOMAIN e.truthStore THEN {e.truthStore[spid]} ELSE {}

GetStats(e) ==
    [total_kpaks    |-> Cardinality(DOMAIN e.truthStore),
     total_subjects |-> Cardinality(DOMAIN e.subjectIndex)]

RemoveExpiredKpaks_DropsSubject(e, t) ==
    LET expiredSPIDs == {s \in DOMAIN e.truthStore : IsExpired(e.truthStore[s], t)}
        touched(sub) == {s \in expiredSPIDs : e.truthStore[s].subject = sub}
        keepSub      == {sub \in DOMAIN e.subjectIndex : touched(sub) = {}}
    IN  [engine  |-> [truthStore   |-> [s \in DOMAIN e.truthStore \ expiredSPIDs
                                            |-> e.truthStore[s]],
                      subjectIndex |-> [sub \in keepSub |-> e.subjectIndex[sub]]],
         removed |-> Cardinality(expiredSPIDs)]

\* RemoveExpiredKpaks under the write lock, at clock value t
RemoveExpiredKpaks(e, t) ==
    LET expiredSPIDs == {s \in DOMAIN e.truthStore : IsExpired(e.truthStore[s], t)}
        touched(sub) == {s \in expiredSPIDs : e.truthStore[s].subject = sub}
        left(sub)    == e.subjectIndex[sub] \ touched(sub)
        keepSub      == {sub \in DOMAIN e.subjectIndex :
                            touched(sub) = {} \/ left(sub) # {}}
    IN  [engine  |-> [truthStore   |-> [s \in DOMAIN e.truthStore \ expiredSPIDs
                                            |-> e.truthStore[s]],
                      subjectIndex |-> [sub \in keepSub |-> left(sub)]],
         removed |-> Cardinality(expiredSPIDs)]

\* The claim a store believes under a key, as a set of at most one k-pak
Believed(e, spid) ==
    IF spid \in DOMAIN e.truthStore THEN {e.truthStore[spid]} ELSE {}

\* ------------------------------------------------------ wire and log form
\* json.Marshal of a Kpak: the member values in struct order
ToJSON(k) ==
    <<k.subject, k.predicate, k.object, k.source, k.confidence, k.timestamp,
      k.expires_at, k.id, k.spid>>

FromJSON_ZeroValue(data) ==
    IF Len(data) = 9
    THEN [ok |-> TRUE,
          kpak |-> [subject |-> data[1], predicate |-> data[2], object |-> data[3],
                    source |-> data[4], confidence |-> data[5],
                    timestamp |-> data[6], expires_at |-> data[7],
                    id |-> data[8], spid |-> data[9]]]
    ELSE [ok |-> TRUE,
          kpak |-> [subject |-> "", predicate |-> "", object |-> "",
                    source |-> "", confidence |-> 0, timestamp |-> 0,
                    expires_at |-> 0, id |-> <<>>, spid |-> <<>>]]

\* json.Unmarshal into a Kpak: an error for a text that is no k-pak object
FromJSON(data) ==
    IF Len(data) = 9
    THEN [ok |-> TRUE,
          kpak |-> [subject |-> data[1], predicate |-> data[2], object |-> data[3],
                    source |-> data[4], confidence |-> data[5],
                    timestamp |-> data[6], expires_at |-> data[7],
                    id |-> data[8], spid |-> data[9]]]
    ELSE [ok |-> FALSE, kpak |-> <<>>]

Load_AbortsOnBadLine(exists, file) ==
    IF ~exists
    THEN [kpaks |-> <<>>, err |-> FALSE]
    ELSE IF \E i \in 1..Len(file) : Len(file[i]) # 0 /\ ~FromJSON(file[i]).ok
    THEN [kpaks |-> <<>>, err |-> TRUE]
    ELSE LET good == SelectSeq(file, LAMBDA l : Len(l) # 0)
         IN  [kpaks |-> [i \in 1..Len(good) |-> FromJSON(good[i]).kpak],
              err |-> FALSE]

\* WAL.Load on a file that exists or not: the k-paks of the lines that
\* parse, in file order; no file is no k-pak and no error.  (An open that
\* fails for another reason and a scanner error are outside this model.)
Load(exists, file) ==
    IF ~exists
    THEN [kpaks |-> <<>>, err |-> FALSE]
    ELSE LET good == SelectSeq(file, LAMBDA l : Len(l) # 0 /\ FromJSON(l).ok)
         IN  [kpaks |-> [i \in 1..Len(good) |-> FromJSON(good[i]).kpak],
              err |-> FALSE]

RECURSIVE ReplayInto(_, _)
\* Agent.loadFromWAL's loop: Reconcile every loaded k-pak in order
ReplayInto(e, kpaks) ==
    IF kpaks = <<>> THEN e
    ELSE ReplayInto(Reconcile(e, Head(kpaks)).engine, Tail(kpaks))

RECURSIVE ReplayAccepted(_, _)
\* the accepted counter of Agent.loadFromWAL's loop
ReplayAccepted(e, kpaks) ==
    IF kpaks = <<>> THEN 0
    ELSE LET r == Reconcile(e, Head(kpaks))
         IN  (IF r.accepted THEN 1 ELSE 0) + ReplayAccepted(r.engine, Tail(kpaks))

\* Agent.loadFromWAL on engine e and the log file: the engine it leaves and
\* what it reports
loadFromWAL(e, exists, file) ==
    LET l == Load(exists, file)
    IN  IF l.err
        THEN [engine |-> e, report |-> [kpaks |-> <<>>, accepted |-> 0, err |-> TRUE]]
        ELSE [engine |-> ReplayInto(e, l.kpaks),
              report |-> [kpaks |-> l.kpaks,
                          accepted |-> ReplayAccepted(e, l.kpaks),
                          err |-> FALSE]]

GossipMessage(k) == [type |-> "kpak", payload |-> ToJSON(k)]

\* json.Unmarshal of a datagram into a GossipMessage: an error for bytes
\* that are not the JSON text of an object
ParseEnvelope(data) ==
    IF DOMAIN data = {"type", "payload"}
    THEN [ok |-> TRUE, msg |-> data]
    ELSE [ok |-> FALSE, msg |-> <<>>]

protoToKpak_StaleID(proto, defaultTTL, t) ==
    LET k0 == NewKpakWithTTL(proto.subject, proto.predicate, proto.object,
                             proto.source, proto.confidence,
                             IF proto.expires_at > t THEN proto.expires_at - t
                             ELSE IF proto.expires_at > 0 THEN 0 ELSE defaultTTL, t)
        k1 == IF proto.timestamp > 0
              THEN [k0 EXCEPT !.timestamp = proto.timestamp] ELSE k0
    IN  IF proto.expires_at > 0
        THEN [k1 EXCEPT !.expires_at = proto.expires_at] ELSE k1

\* Agent.protoToKpak at clock value t on a node with the given default TTL
protoToKpak(proto, defaultTTL, t) ==
    LET ttlSeconds ==
            IF proto.expires_at > 0
            THEN (IF proto.expires_at > t THEN proto.expires_at - t ELSE 0)
            ELSE IF defaultTTL > 0 THEN defaultTTL ELSE 0
        k0 == NewKpakWithTTL(proto.subject, proto.predicate, proto.object,
                             proto.source, proto.confidence, ttlSeconds, t)
        k1 == IF proto.timestamp > 0
              THEN [k0 EXCEPT !.timestamp = proto.timestamp] ELSE k0
        k2 == IF proto.expires_at > 0
              THEN [k1 EXCEPT !.expires_at = proto.expires_at] ELSE k1
    IN  IF proto.timestamp > 0 THEN RegenerateComputedFields(k2) ELSE k2

\* ------------------------------------------------------------- the agents
Serving(n) == agent[n] \in {"serving", "running", "stopping"}
GossipRunning(n) == agent[n] = "running"

\* ------------------------------------------------------ GarbageCollector
\* NewGarbageCollector: not running, stopChan open, no run goroutine
NewGarbageCollector == [running |-> FALSE, closed |-> FALSE, loops |-> 0]

GCStart_Always(g, enabled) ==
    IF ~enabled THEN g ELSE [g EXCEPT !.running = TRUE, !.loops = @ + 1]

\* GarbageCollector.Start under the collector's mutex: nothing when the
\* collector is disabled or running, else running is set and a run goroutine
\* is launched
GCStart(g, enabled) ==
    IF ~enabled \/ g.running
    THEN g
    ELSE [g EXCEPT !.running = TRUE, !.loops = @ + 1]

\* GarbageCollector.Stop under the collector's mutex: nothing when the
\* collector is not running; else running is cleared and stopChan is closed,
\* which panics when it is closed already; else the call waits for the run
\* goroutines, which return on the closed channel
GCStop(g) ==
    IF ~g.running
    THEN [gc |-> g, panic |-> FALSE]
    ELSE IF g.closed
         THEN [gc |-> [g EXCEPT !.running = FALSE], panic |-> TRUE]
         ELSE [gc |-> [g EXCEPT !.running = FALSE, !.closed = TRUE, !.loops = 0],
               panic |-> FALSE]

\* A run goroutine waits on the ticker: one launched after stopChan was
\* closed returns at its first select
GCRunning(n) == gc[n].loops > 0 /\ ~gc[n].closed

\* Goroutines that call Start and later Stop on one collector
GCCallers == {"g1", "g2", "g3"}

\* ----------------------------------------------------------------- metrics
\* NewMetrics: the counters at zero and no source seen (the rate trackers
\* and the time a source was last seen are not followed)
NewMetrics ==
    [totalIngestedKpaks |-> 0, totalAcceptedKpaks |-> 0,
     totalRejectedKpaks |-> 0, totalQueries |-> 0, activeSources |-> {}]

\* atomic.AddInt64(&m.totalIngestedKpaks, 1)
AddIngested(m) == [m EXCEPT !.totalIngestedKpaks = @ + 1]

\* RecordIngest after the first add: the add to totalAcceptedKpaks or to
\* totalRejectedKpaks, then the source is entered in activeSources
AddOutcome(m, source, accepted) ==
    IF accepted
    THEN [m EXCEPT !.totalAcceptedKpaks = @ + 1,
                   !.activeSources = @ \cup {source}]
    ELSE [m EXCEPT !.totalRejectedKpaks = @ + 1,
                   !.activeSources = @ \cup {source}]

\* Metrics.RecordIngest as one step
RecordIngest(m, source, accepted) == AddOutcome(AddIngested(m), source, accepted)

\* Metrics.RecordQuery
RecordQuery(m) == [m EXCEPT !.totalQueries = @ + 1]

\* What a Start or Shutdown call returned and from which return statement
\* ("check": the one under the test of a.running, "end": the last one);
\* NoCall before the first return
NoCall == [op |-> "none", err |-> FALSE, at |-> "none"]
CallResult(op, err, at) == [op |-> op, err |-> err, at |-> at]

NewStream ==
    [pc |-> "idle", node |-> "", kpak |-> <<>>, accepted |-> 0, rejected |-> 0,
     errors |-> <<>>, received |-> 0, steps |-> <<>>, submitted |-> <<>>]

\* The goroutines followed lock by lock: an Ingest stream, memberlist's
\* packet goroutine (NotifyMsg), the collector's run loop, a Query call and
\* the caller of Shutdown
LockThreads == {"ingest", "gossip", "collector", "query", "shutdown"}

IdleThread == [pc |-> "idle", held |-> <<>>, kpak |-> <<>>, ok |-> FALSE, calls |-> 0]

NoThreads == [t \in LockThreads |-> IdleThread]

\* Nothing of the mesh exists: the state of the mesh variables when only an
\* Engine is under test
MeshIdle ==
    /\ config = [n \in Nodes |-> [DefaultTTLSeconds |-> 0, GCEnabled |-> FALSE]]
    /\ agent = [n \in Nodes |-> "absent"]
    /\ wal = [n \in Nodes |-> <<>>]
    /\ walOpen = [n \in Nodes |-> FALSE]
    /\ members = [n \in Nodes |-> {}]
    /\ net = EmptyBag
    /\ handler = [n \in Nodes |-> <<>>]
    /\ stream = [s \in Streams |-> NewStream]
    /\ everAccepted = {}
    /\ appendFailed = [n \in Nodes |-> FALSE]
    /\ snapshot = [n \in Nodes |-> <<>>]
    /\ replayed = [n \in Nodes |-> FALSE]
    /\ restarts = 0
    /\ loaded = [n \in Nodes |-> <<>>]
    /\ walExists = [n \in Nodes |-> TRUE]
    /\ lastCall = [n \in Nodes |-> NoCall]
    /\ gc = [n \in Nodes |-> NewGarbageCollector]
    /\ caller = [c \in GCCallers |-> "idle"]
    /\ loading = [n \in Nodes |-> <<>>]
    /\ thread = NoThreads
    /\ metrics = [n \in Nodes |-> NewMetrics]

\* NewAgent on the nodes of ns, each with an empty log file
MeshInit(ns, ttls) ==
    /\ now = 1
    /\ engine = [n \in Nodes |-> NewEngine]
    /\ ret = FALSE /\ hist = <<>> /\ base = <<>> /\ ncalls = 0 /\ removed = 0
    /\ config \in {[n \in Nodes |-> [DefaultTTLSeconds |-> t, GCEnabled |-> TRUE]] :
                      t \in ttls}
    /\ agent = [n \in Nodes |-> IF n \in ns THEN "new" ELSE "absent"]
    /\ wal = [n \in Nodes |-> <<>>]
    /\ walOpen = [n \in Nodes |-> n \in ns]
    /\ members = [n \in Nodes |-> {}]
    /\ net = EmptyBag
    /\ handler = [n \in Nodes |-> <<>>]
    /\ stream = [s \in Streams |-> NewStream]
    /\ everAccepted = {}
    /\ appendFailed = [n \in Nodes |-> FALSE]
    /\ snapshot = [n \in Nodes |-> <<>>]
    /\ replayed = [n \in Nodes |-> FALSE]
    /\ restarts = 0
    /\ loaded = [n \in Nodes |-> <<>>]
    /\ walExists = [n \in Nodes |-> TRUE]
    /\ lastCall = [n \in Nodes |-> NoCall]
    /\ gc = [n \in Nodes |-> NewGarbageCollector]
    /\ caller = [c \in GCCallers |-> "idle"]
    /\ loading = [n \in Nodes |-> <<>>]
    /\ thread = NoThreads
    /\ metrics = [n \in Nodes |-> NewMetrics]

\* Agent.Start up to the launch of the gRPC server: the log is replayed into
\* the engine, then the server accepts streams
StartLoad(n) ==
    LET l == loadFromWAL(engine[n], walExists[n], wal[n])
    IN  /\ agent[n] = "new"
        /\ agent' = [agent EXCEPT ![n] = "serving"]
        /\ engine' = [engine EXCEPT ![n] = l.engine]
        /\ loaded' = [loaded EXCEPT ![n] = Append(@, l.report)]
        /\ replayed' = [replayed EXCEPT ![n] = restarts > 0]
        /\ UNCHANGED <<now, engineVars, config, wal, walOpen, members, net,
                       handler, stream, everAccepted, appendFailed, snapshot,
                       restarts, walExists, lastCall, gc, caller, loading, thread, metrics>>

\* Agent.Start launching the gRPC server before it replays the log
StartBegin_ServesFirst(n) ==
    LET l == Load(walExists[n], wal[n])
    IN  /\ agent[n] = "new"
        /\ agent' = [agent EXCEPT ![n] = "serving"]
        /\ loading' = [loading EXCEPT ![n] = l.kpaks]
        /\ loaded' = [loaded EXCEPT ![n] =
                Append(@, [kpaks |-> l.kpaks, accepted |-> 0, err |-> l.err])]
        /\ UNCHANGED <<now, engine, engineVars, config, wal, walOpen, members,
                       net, handler, stream, everAccepted, appendFailed, snapshot,
                       replayed, restarts, walExists, lastCall, gc, caller,
                       thread, metrics>>

\* The same part of Agent.Start, one statement at a time.  Start passes the
\* test of a.running and loadFromWAL calls wal.Load
StartBegin(n) ==
    LET l == Load(walExists[n], wal[n])
    IN  /\ agent[n] = "new"
        /\ agent' = [agent EXCEPT ![n] = "loading"]
        /\ loading' = [loading EXCEPT ![n] = l.kpaks]
        /\ loaded' = [loaded EXCEPT ![n] =
                Append(@, [kpaks |-> l.kpaks, accepted |-> 0, err |-> l.err])]
        /\ UNCHANGED <<now, engine, engineVars, config, wal, walOpen, members,
                       net, handler, stream, everAccepted, appendFailed, snapshot,
                       replayed, restarts, walExists, lastCall, gc, caller,
                       thread, metrics>>

\* One turn of loadFromWAL's loop: the next loaded k-pak is reconciled and
\* counted when accepted
ReplayStep(n) ==
    LET r == Reconcile(engine[n], Head(loading[n]))
        last == Len(loaded[n])
    IN  /\ loading[n] # <<>>
        /\ engine' = [engine EXCEPT ![n] = r.engine]
        /\ loading' = [loading EXCEPT ![n] = Tail(@)]
        /\ loaded' = [loaded EXCEPT ![n][last].accepted =
                IF r.accepted THEN @ + 1 ELSE @]
        /\ UNCHANGED <<now, engineVars, config, agent, wal, walOpen, members,
                       net, handler, stream, everAccepted, appendFailed, snapshot,
                       replayed, restarts, walExists, lastCall, gc, caller,
                       thread, metrics>>

\* loadFromWAL returns after its last turn and startGRPCServer launches the
\* server
StartServe(n) ==
    /\ agent[n] = "loading"
    /\ loading[n] = <<>>
    /\ agent' = [agent EXCEPT ![n] = "serving"]
    /\ replayed' = [replayed EXCEPT ![n] = restarts > 0]
    /\ UNCHANGED <<now, engine, engineVars, config, wal, walOpen, members, net,
                   handler, stream, everAccepted, appendFailed, snapshot,
                   restarts, loaded, walExists, lastCall, gc, caller, loading, thread, metrics>>

\* Agent.Start from gossip.Start on: memberlist is created with the local
\* node as its only member, the collector is started, running is set
StartGossip(n) ==
    /\ agent[n] = "serving"
    /\ agent' = [agent EXCEPT ![n] = "running"]
    /\ members' = [members EXCEPT ![n] = {n}]
    /\ gc' = [gc EXCEPT ![n] = GCStart(@, config[n].GCEnabled)]
    /\ lastCall' = [lastCall EXCEPT ![n] = CallResult("Start", FALSE, "end")]
    /\ UNCHANGED <<now, engine, engineVars, config, wal, walOpen, net, handler,
                   stream, everAccepted, appendFailed, snapshot, replayed, restarts,
                   loaded, walExists, caller, loading, thread, metrics>>

\* Agent.Start, up to the launch of the gRPC server, on an agent that was shut
\* down: a.running is clear, so the log is replayed into the engine the agent
\* still holds and a new server is launched; the log file stays closed
StartAgain(n) ==
    LET l == loadFromWAL(engine[n], walExists[n], wal[n])
    IN  /\ agent[n] = "stopped"
        /\ agent' = [agent EXCEPT ![n] = "serving"]
        /\ engine' = [engine EXCEPT ![n] = l.engine]
        /\ loaded' = [loaded EXCEPT ![n] = Append(@, l.report)]
        /\ UNCHANGED <<now, engineVars, config, wal, walOpen, members, net,
                       handler, stream, everAccepted, appendFailed, snapshot,
                       replayed, restarts, walExists, lastCall, gc, caller,
                       loading, thread, metrics>>

\* GarbageCollector.run launched when stopChan is closed already: the
\* goroutine returns
GCRunReturn(n) ==
    /\ gc[n].loops > 0 /\ gc[n].closed
    /\ gc' = [gc EXCEPT ![n].loops = @ - 1]
    /\ UNCHANGED <<now, engine, engineVars, config, agent, wal, walOpen, members,
                   net, handler, stream, everAccepted, appendFailed, snapshot,
                   replayed, restarts, loaded, walExists, lastCall, caller,
                   loading, thread, metrics>>

\* Agent.Start with the test of a.running after the replay of the log
StartWhileRunning_LoadsFirst(n) ==
    LET l == loadFromWAL(engine[n], walExists[n], wal[n])
    IN  /\ agent[n] = "running"
        /\ engine' = [engine EXCEPT ![n] = l.engine]
        /\ loaded' = [loaded EXCEPT ![n] = Append(@, l.report)]
        /\ lastCall' = [lastCall EXCEPT ![n] = CallResult("Start", TRUE, "check")]
        /\ UNCHANGED <<now, engineVars, config, agent, wal, walOpen, members,
                       net, handler, stream, everAccepted, appendFailed,
                       snapshot, replayed, restarts, walExists, gc, caller,
                       loading, thread, metrics>>

\* Agent.Start when a.running is set: the call returns "agent is already
\* running" before it reaches loadFromWAL
StartWhileRunning(n) ==
    /\ agent[n] = "running"
    /\ lastCall' = [lastCall EXCEPT ![n] = CallResult("Start", TRUE, "check")]
    /\ UNCHANGED <<now, engine, engineVars, config, agent, wal, walOpen, members,
                   net, handler, stream, everAccepted, appendFailed, snapshot,
                   replayed, restarts, loaded, walExists, gc, caller, loading, thread, metrics>>

\* memberlist.Join and the membership protocol: two running nodes learn of
\* each other
Join(n, m) ==
    /\ n # m
    /\ GossipRunning(n) /\ GossipRunning(m)
    /\ m \notin members[n] \/ n \notin members[m]
    /\ members' = [members EXCEPT ![n] = @ \cup {m}, ![m] = @ \cup {n}]
    /\ UNCHANGED <<now, engine, engineVars, config, agent, wal, walOpen, net,
                   handler, stream, everAccepted, appendFailed, snapshot, replayed,
                   restarts, loaded, walExists, lastCall, gc, caller, loading, thread, metrics>>

\* Agent.Shutdown up to GracefulStop: the collector is stopped, the node
\* leaves the mesh and its memberlist is shut down, the server takes no new
\* stream
ShutdownBegin(n) ==
    /\ agent[n] = "running"
    /\ ~GCStop(gc[n]).panic
    /\ gc' = [gc EXCEPT ![n] = GCStop(@).gc]
    /\ agent' = [agent EXCEPT ![n] = "stopping"]
    /\ members' = [m \in Nodes |-> IF m = n THEN {} ELSE members[m] \ {n}]
    /\ net' = [pkt \in {q \in DOMAIN net : q.dst # n} |-> net[pkt]]
    /\ UNCHANGED <<now, engine, engineVars, config, wal, walOpen, handler, stream,
                   everAccepted, appendFailed, snapshot, replayed, restarts,
                   loaded, walExists, lastCall, caller, loading, thread, metrics>>

\* Agent.Shutdown whose gc.Stop panics: the panic is not recovered, the
\* process dies with its streams
ShutdownPanics(n) ==
    /\ agent[n] = "running"
    /\ GCStop(gc[n]).panic
    /\ gc' = [gc EXCEPT ![n] = GCStop(@).gc]
    /\ agent' = [agent EXCEPT ![n] = "crashed"]
    /\ stream' = [s \in Streams |->
                    IF stream[s].node = n /\ stream[s].pc # "done"
                    THEN [stream[s] EXCEPT !.pc = "dead"]
                    ELSE stream[s]]
    /\ UNCHANGED <<now, engine, engineVars, config, wal, walOpen, members, net,
                   handler, everAccepted, appendFailed, snapshot, replayed,
                   restarts, loaded, walExists, lastCall, caller, loading, thread, metrics>>

\* Agent.Shutdown from the return of GracefulStop (every stream on the node
\* has ended) on: the log is closed, running is cleared
ShutdownEnd(n) ==
    /\ agent[n] = "stopping"
    /\ \A s \in Streams : stream[s].node = n => stream[s].pc = "done"
    /\ agent' = [agent EXCEPT ![n] = "stopped"]
    /\ walOpen' = [walOpen EXCEPT ![n] = FALSE]
    /\ snapshot' = [snapshot EXCEPT ![n] = engine[n].truthStore]
    /\ lastCall' = [lastCall EXCEPT ![n] = CallResult("Shutdown", FALSE, "end")]
    /\ UNCHANGED <<now, engine, engineVars, config, wal, members, net, handler,
                   stream, everAccepted, appendFailed, replayed, restarts,
                   loaded, walExists, gc, caller, loading, thread, metrics>>

\* Agent.Shutdown when a.running is clear (never started, or shut down
\* already): the call returns nil before it reaches gc.Stop
ShutdownNotRunning(n) ==
    /\ agent[n] \in {"new", "stopped"}
    /\ lastCall' = [lastCall EXCEPT ![n] = CallResult("Shutdown", FALSE, "check")]
    /\ UNCHANGED <<now, engine, engineVars, config, agent, wal, walOpen, members,
                   net, handler, stream, everAccepted, appendFailed, snapshot,
                   replayed, restarts, loaded, walExists, gc, caller, loading, thread, metrics>>

\* The process is started again on the same log file: NewAgent
NewAgent(n) ==
    /\ agent[n] = "stopped"
    /\ handler[n] = <<>>
    /\ restarts < MaxRestarts
    /\ restarts' = restarts + 1
    /\ agent' = [agent EXCEPT ![n] = "new"]
    /\ engine' = [engine EXCEPT ![n] = NewEngine]
    /\ walOpen' = [walOpen EXCEPT ![n] = TRUE]
    /\ loaded' = [loaded EXCEPT ![n] = <<>>]
    /\ lastCall' = [lastCall EXCEPT ![n] = NoCall]
    /\ gc' = [gc EXCEPT ![n] = NewGarbageCollector]
    /\ metrics' = [metrics EXCEPT ![n] = NewMetrics]
    /\ UNCHANGED <<now, engineVars, config, wal, members, net, handler, stream,
                   everAccepted, appendFailed, snapshot, replayed, walExists,
                   caller, loading, thread>>

GCPass_Never(n) ==
    /\ GCRunning(n)
    /\ UNCHANGED <<now, engine, engineVars, meshVars>>

\* One firing of the collector's ticker: collectGarbage
GCPass(n) ==
    /\ GCRunning(n)
    /\ engine' = [engine EXCEPT ![n] = RemoveExpiredKpaks(engine[n], now).engine]
    /\ UNCHANGED <<now, engineVars, meshVars>>

\* the wall clock advances
Tick ==
    /\ now < MaxClock
    /\ now' = now + 1
    /\ UNCHANGED <<engine, engineVars, meshVars>>

\* ------------------------------------------------------------ Agent.Ingest
\* A client opens an Ingest stream on a node whose gRPC server is serving
\* ("orphaned": the server that a failed Start left behind)
StreamOpen(s, n) ==
    /\ stream[s].pc = "idle"
    /\ agent[n] \in {"serving", "running", "orphaned"}
    /\ stream' = [stream EXCEPT ![s].pc = "recv", ![s].node = n]
    /\ UNCHANGED <<now, engine, engineVars, config, agent, wal, walOpen, members,
                   net, handler, everAccepted, appendFailed, snapshot, replayed,
                   restarts, loaded, walExists, lastCall, gc, caller, loading, thread, metrics>>

\* stream.Recv() returns a k-pak, protoToKpak converts it
StreamRecv(s, proto) ==
    LET n == stream[s].node
        k == protoToKpak(proto, config[n].DefaultTTLSeconds, now)
    IN  /\ stream[s].pc = "recv"
        /\ stream[s].received < MaxStreamLen
        /\ stream' = [stream EXCEPT
                ![s].pc = "reconcile",
                ![s].kpak = <<k>>,
                ![s].received = @ + 1,
                ![s].steps = Append(@, "recv"),
                ![s].submitted = Append(@, k)]
        /\ UNCHANGED <<now, engine, engineVars, config, agent, wal, walOpen,
                       members, net, handler, everAccepted, appendFailed, snapshot,
                       replayed, restarts, loaded, walExists, lastCall,
                       gc, caller, loading, thread, metrics>>

Tally_FailureUncounted(st, outcome) ==
    [st EXCEPT
        !.accepted = IF outcome = "append:ok" THEN @ + 1 ELSE @,
        !.rejected = IF outcome = "reconcile:rejected" THEN @ + 1 ELSE @,
        !.steps = Append(@, outcome)]

\* The counting of Ingest's loop body: what the outcome of a step adds to
\* accepted, rejected and errors
Tally(st, outcome) ==
    [st EXCEPT
        !.accepted = IF outcome = "append:ok" THEN @ + 1 ELSE @,
        !.rejected = IF outcome \in {"reconcile:rejected", "append:failed"}
                     THEN @ + 1 ELSE @,
        !.errors = IF outcome = "append:failed"
                   THEN Append(@, "failed to persist k-pak") ELSE @,
        !.steps = Append(@, outcome)]

AfterStep_BroadcastAnyway(outcome) ==
    IF outcome = "reconcile:accepted" THEN "append"
    ELSE IF outcome \in {"append:ok", "append:failed"} THEN "broadcast"
    ELSE "recv"

\* The branching of Ingest's loop body: the step that follows an outcome
AfterStep(outcome) ==
    IF outcome = "reconcile:accepted" THEN "append"
    ELSE IF outcome = "append:ok" THEN "broadcast"
    ELSE "recv"

\* a.engine.Reconcile(kpak); a rejected k-pak is counted at once, in the
\* reply and in the metrics
StreamReconcile(s) ==
    LET n == stream[s].node
        k == stream[s].kpak[1]
        r == Reconcile(engine[n], k)
        outcome == IF r.accepted THEN "reconcile:accepted" ELSE "reconcile:rejected"
    IN  /\ stream[s].pc = "reconcile"
        /\ engine' = [engine EXCEPT ![n] = r.engine]
        /\ stream' = [stream EXCEPT
                ![s] = [Tally(@, outcome) EXCEPT !.pc = AfterStep(outcome)]]
        /\ replayed' = [replayed EXCEPT ![n] = FALSE]
        /\ metrics' = IF r.accepted THEN metrics
                      ELSE [metrics EXCEPT ![n] = RecordIngest(@, k.source, FALSE)]
        /\ UNCHANGED <<now, engineVars, config, agent, wal, walOpen, members, net,
                       handler, everAccepted, appendFailed, snapshot, restarts,
                       loaded, walExists, lastCall, gc, caller, loading, thread>>

\* a.wal.Append(kpak) under the log's mutex: it fails on a closed file and
\* may fail on the disk (ok = FALSE); the k-pak is then counted as accepted
\* or as rejected, in the reply and in the metrics
StreamAppend(s, ok) ==
    LET n == stream[s].node
        k == stream[s].kpak[1]
        done == ok /\ walOpen[n]
        outcome == IF done THEN "append:ok" ELSE "append:failed"
    IN  /\ stream[s].pc = "append"
        /\ wal' = IF done THEN [wal EXCEPT ![n] = Append(@, ToJSON(k))] ELSE wal
        /\ appendFailed' = IF done THEN appendFailed
                           ELSE [appendFailed EXCEPT ![n] = TRUE]
        /\ stream' = [stream EXCEPT
                ![s] = [Tally(@, outcome) EXCEPT !.pc = AfterStep(outcome)]]
        /\ everAccepted' = IF done THEN everAccepted \cup {k} ELSE everAccepted
        /\ metrics' = [metrics EXCEPT ![n] = RecordIngest(@, k.source, done)]
        /\ UNCHANGED <<now, engine, engineVars, config, agent, walOpen, members,
                       net, handler, snapshot, replayed, restarts, loaded,
                       walExists, lastCall, gc, caller, loading, thread>>

BroadcastKpak_FailsOnPeerError(n, k, arrive) ==
    [err |-> ~GossipRunning(n) \/ arrive # members[n] \ {n} \/ members[n] = {n},
     packets |-> IF GossipRunning(n)
                 THEN {[dst |-> m, data |-> GossipMessage(k)] :
                            m \in (members[n] \ {n}) \cap arrive}
                 ELSE {}]

BroadcastKpak_IncludesSelf(n, k, arrive) ==
    IF ~GossipRunning(n)
    THEN [err |-> TRUE, packets |-> {}]
    ELSE [err |-> FALSE,
          packets |-> {[dst |-> m, data |-> GossipMessage(k)] :
                            m \in (members[n] \cap arrive) \cup {n}}]

BroadcastKpak_ToNobody(n, k, arrive) ==
    [err |-> ~GossipRunning(n), packets |-> {}]

\* Manager.BroadcastKpak: an error when gossip is not running; otherwise one
\* best-effort send to every member but the local node.  arrive is the set of
\* members whose datagram is sent without error and not lost on the way.
BroadcastKpak(n, k, arrive) ==
    IF ~GossipRunning(n)
    THEN [err |-> TRUE, packets |-> {}]
    ELSE [err |-> FALSE,
          packets |-> {[dst |-> m, data |-> GossipMessage(k)] :
                            m \in (members[n] \ {n}) \cap arrive}]

\* a.gossip.BroadcastKpak(kpak); its error is only logged
StreamBroadcast(s, arrive) ==
    LET n == stream[s].node
        k == stream[s].kpak[1]
        b == BroadcastKpak(n, k, arrive)
        outcome == IF b.err THEN "broadcast:failed" ELSE "broadcast:ok"
    IN  /\ stream[s].pc = "broadcast"
        /\ arrive \subseteq members[n] \ {n}
        /\ net' = net (+) SetToBag(b.packets)
        /\ stream' = [stream EXCEPT
                ![s] = [Tally(@, outcome) EXCEPT !.pc = AfterStep(outcome)]]
        /\ UNCHANGED <<now, engine, engineVars, config, agent, wal, walOpen,
                       members, handler, everAccepted, appendFailed, snapshot,
                       replayed, restarts, loaded, walExists, lastCall,
                       gc, caller, loading, thread, metrics>>

\* stream.Recv() reports the end of the stream: SendAndClose
StreamClose(s) ==
    /\ stream[s].pc = "recv"
    /\ stream' = [stream EXCEPT ![s].pc = "done"]
    /\ UNCHANGED <<now, engine, engineVars, config, agent, wal, walOpen, members,
                   net, handler, everAccepted, appendFailed, snapshot, replayed,
                   restarts, loaded, walExists, lastCall, gc, caller, loading, thread, metrics>>

\* ---------------------------------------------------------- gossip inbound
NotifyMsg_Rebroadcast(n, pkt) ==
    LET env == ParseEnvelope(pkt.data)
        msg == env.msg
        parsed == FromJSON(msg.payload)
        r == Reconcile(engine[n], parsed.kpak)
        handled == env.ok /\ msg.type = "kpak" /\ parsed.ok
        again == IF handled /\ r.accepted
                 THEN {[dst |-> m, data |-> msg] : m \in members[n] \ {n}}
                 ELSE {}
    IN  /\ GossipRunning(n)
        /\ handler[n] = <<>>
        /\ BagIn(pkt, net) /\ pkt.dst = n
        /\ net' = (net (-) SetToBag({pkt})) (+) SetToBag(again)
        /\ IF handled
           THEN /\ engine' = [engine EXCEPT ![n] = r.engine]
                /\ handler' = IF r.accepted
                               THEN [handler EXCEPT ![n] = <<parsed.kpak>>]
                               ELSE handler
                /\ replayed' = [replayed EXCEPT ![n] = FALSE]
                /\ metrics' = IF r.accepted THEN metrics
                              ELSE [metrics EXCEPT
                                     ![n] = RecordIngest(@, parsed.kpak.source, FALSE)]
           ELSE UNCHANGED <<engine, handler, replayed, metrics>>
        /\ UNCHANGED <<now, engineVars, config, agent, wal, walOpen, members,
                       stream, everAccepted, appendFailed, snapshot, restarts,
                       loaded, walExists, lastCall, gc, caller, loading, thread>>

\* NotifyMsg, handleKpakMessage and the agent's k-pak handler up to the
\* return of Reconcile: a message that fails to parse or has another type
\* is dropped, an accepted k-pak is left for the handler to log, a rejected
\* one is counted
NotifyMsg(n, pkt) ==
    LET env == ParseEnvelope(pkt.data)
        msg == env.msg
        parsed == FromJSON(msg.payload)
        r == Reconcile(engine[n], parsed.kpak)
        handled == env.ok /\ msg.type = "kpak" /\ parsed.ok
    IN  /\ GossipRunning(n)
        /\ handler[n] = <<>>
        /\ BagIn(pkt, net) /\ pkt.dst = n
        /\ net' = net (-) SetToBag({pkt})
        /\ IF handled
           THEN /\ engine' = [engine EXCEPT ![n] = r.engine]
                /\ handler' = IF r.accepted
                               THEN [handler EXCEPT ![n] = <<parsed.kpak>>]
                               ELSE handler
                /\ replayed' = [replayed EXCEPT ![n] = FALSE]
                /\ metrics' = IF r.accepted THEN metrics
                              ELSE [metrics EXCEPT
                                     ![n] = RecordIngest(@, parsed.kpak.source, FALSE)]
           ELSE UNCHANGED <<engine, handler, replayed, metrics>>
        /\ UNCHANGED <<now, engineVars, config, agent, wal, walOpen, members,
                       stream, everAccepted, appendFailed, snapshot, restarts,
                       loaded, walExists, lastCall, gc, caller, loading, thread>>

\* the k-pak handler's agent.wal.Append(kpak), a failure is only logged,
\* and its agent.metrics.RecordIngest(kpak.Source, accepted)
HandlerAppend(n, ok) ==
    LET k == handler[n][1]
        done == ok /\ walOpen[n]
    IN  /\ handler[n] # <<>>
        /\ wal' = IF done THEN [wal EXCEPT ![n] = Append(@, ToJSON(k))] ELSE wal
        /\ appendFailed' = IF done THEN appendFailed
                           ELSE [appendFailed EXCEPT ![n] = TRUE]
        /\ handler' = [handler EXCEPT ![n] = <<>>]
        /\ metrics' = [metrics EXCEPT ![n] = RecordIngest(@, k.source, TRUE)]
        /\ UNCHANGED <<now, engine, engineVars, config, agent, walOpen, members,
                       net, stream, everAccepted, snapshot, replayed, restarts,
                       loaded, walExists, lastCall, gc, caller, loading, thread>>

\* --------------------------------------------------------------- the mesh
\* What clients send: the two conflicting claims about pluto, with or
\* without an expiry of their own
MeshProtos ==
    {[subject |-> "pluto", predicate |-> "is_planet", object |-> c[1],
      source |-> c[2], confidence |-> c[3], timestamp |-> 0, expires_at |-> x] :
        c \in {<<"true", "OldText", 60>>, <<"false", "IAU-2006", 99>>},
        x \in {0, 2}}

MeshNodes == {"n1", "n2"}
MeshStreams == {"s1"}

Init == MeshInit(MeshNodes, {0})

Next ==
    \/ \E n \in MeshNodes : StartLoad(n)
    \/ \E n \in MeshNodes : StartGossip(n)
    \/ \E n, m \in MeshNodes : Join(n, m)
    \/ \E s \in MeshStreams, n \in MeshNodes : StreamOpen(s, n)
    \/ \E s \in MeshStreams, proto \in MeshProtos : StreamRecv(s, proto)
    \/ \E s \in MeshStreams : StreamReconcile(s)
    \/ \E s \in MeshStreams, ok \in BOOLEAN : StreamAppend(s, ok)
    \/ \E s \in MeshStreams, arrive \in SUBSET MeshNodes : StreamBroadcast(s, arrive)
    \/ \E s \in MeshStreams : StreamClose(s)
    \/ \E n \in MeshNodes, pkt \in DOMAIN net : NotifyMsg(n, pkt)
    \/ \E n \in MeshNodes, ok \in BOOLEAN : HandlerAppend(n, ok)
    \/ \E n \in MeshNodes : GCPass(n)
    \/ Tick

Spec == Init /\ [][Next]_vars

\* A claim its client has stamped with a timestamp of its own
StampedProtos ==
    {[subject |-> "pluto", predicate |-> "is_planet", object |-> "false",
      source |-> "IAU-2006", confidence |-> 99, timestamp |-> 2, expires_at |-> 0]}

\* The mesh with agents that are shut down and started again on their logs
RecoveryNext ==
    \/ Next
    \/ \E s \in MeshStreams, proto \in StampedProtos : StreamRecv(s, proto)
    \/ \E n \in MeshNodes : ShutdownBegin(n)
    \/ \E n \in MeshNodes : ShutdownEnd(n)
    \/ \E n \in MeshNodes : NewAgent(n)

RecoverySpec == Init /\ [][RecoveryNext]_vars

\* ------------------------------------------------------ the reliable mesh
\* The quickstart's mesh: three agents already started and joined, claims
\* that carry no expiry, every log append succeeding and every datagram of a
\* broadcast reaching its target.
ReliableProtos ==
    {[subject |-> "pluto", predicate |-> "is_planet", object |-> c[1],
      source |-> c[2], confidence |-> c[3], timestamp |-> 0, expires_at |-> 0] :
        c \in {<<"true", "OldText", 60>>, <<"false", "IAU-2006", 99>>}}

ReliableInit ==
    /\ now = 1
    /\ engine = [n \in Nodes |-> NewEngine]
    /\ ret = FALSE /\ hist = <<>> /\ base = <<>> /\ ncalls = 0 /\ removed = 0
    /\ config = [n \in Nodes |-> [DefaultTTLSeconds |-> 0, GCEnabled |-> TRUE]]
    /\ agent = [n \in Nodes |-> "running"]
    /\ wal = [n \in Nodes |-> <<>>]
    /\ walOpen = [n \in Nodes |-> TRUE]
    /\ members = [n \in Nodes |-> Nodes]
    /\ net = EmptyBag
    /\ handler = [n \in Nodes |-> <<>>]
    /\ stream = [s \in Streams |-> NewStream]
    /\ everAccepted = {}
    /\ appendFailed = [n \in Nodes |-> FALSE]
    /\ snapshot = [n \in Nodes |-> <<>>]
    /\ replayed = [n \in Nodes |-> FALSE]
    /\ restarts = 0
    /\ loaded = [n \in Nodes |-> <<>>]
    /\ walExists = [n \in Nodes |-> TRUE]
    /\ lastCall = [n \in Nodes |-> CallResult("Start", FALSE, "end")]
    /\ gc = [n \in Nodes |-> GCStart(NewGarbageCollector, TRUE)]
    /\ caller = [c \in GCCallers |-> "idle"]
    /\ loading = [n \in Nodes |-> <<>>]
    /\ thread = NoThreads
    /\ metrics = [n \in Nodes |-> NewMetrics]

\* Where the two clients connect: both to one agent, or to two agents (the
\* agents are interchangeable, so the first client's agent is fixed)
ReliablePlacement == [s \in Streams |-> IF s = "s1" THEN {"n1"} ELSE {"n1", "n2"}]

ReliableNext ==
    \/ \E s \in Streams : \E n \in ReliablePlacement[s] : StreamOpen(s, n)
    \/ \E s \in Streams, proto \in ReliableProtos : StreamRecv(s, proto)
    \/ \E s \in Streams : StreamReconcile(s)
    \/ \E s \in Streams : StreamAppend(s, TRUE)
    \/ \E s \in Streams : StreamBroadcast(s, members[stream[s].node] \ {stream[s].node})
    \/ \E s \in Streams : StreamClose(s)
    \/ \E n \in Nodes, pkt \in DOMAIN net : NotifyMsg(n, pkt)
    \/ \E n \in Nodes : HandlerAppend(n, TRUE)

ReliableSpec == ReliableInit /\ [][ReliableNext]_vars

\* ------------------------------------------------- one agent and its clock
\* The TTL scenario: one agent, with or without a default TTL, a client that
\* streams claims about server1 with or without an expiry of their own, the
\* clock and the garbage collector's ticker.
ExpiryNode == "n1"

ExpiryProtos ==
    {[subject |-> "server1", predicate |-> "status", object |-> c[1],
      source |-> c[2], confidence |-> c[3], timestamp |-> 0, expires_at |-> x] :
        c \in {<<"maintenance", "admin", 100>>, <<"up", "probe", 50>>},
        x \in {0, 2}}

ExpiryInit == MeshInit({ExpiryNode}, {0, 1})

ExpiryNext ==
    \/ StartLoad(ExpiryNode)
    \/ StartGossip(ExpiryNode)
    \/ StreamOpen("s1", ExpiryNode)
    \/ \E proto \in ExpiryProtos : StreamRecv("s1", proto)
    \/ StreamReconcile("s1")
    \/ \E ok \in BOOLEAN : StreamAppend("s1", ok)
    \/ StreamBroadcast("s1", {})
    \/ StreamClose("s1")
    \/ GCPass(ExpiryNode)
    \/ Tick

\* The ticker of a running collector keeps firing
ExpirySpec == ExpiryInit /\ [][ExpiryNext]_vars /\ WF_vars(GCPass(ExpiryNode))

\* ------------------------------------------------- calls of Start, Shutdown
\* One agent whose owner calls Start and Shutdown in any order, any number of
\* times, while a client streams claims to it.
LifecycleNode == "n1"

LifecycleInit == MeshInit({LifecycleNode}, {0})

LifecycleNext ==
    \/ StartLoad(LifecycleNode)
    \/ StartGossip(LifecycleNode)
    \/ StartWhileRunning(LifecycleNode)
    \/ ShutdownBegin(LifecycleNode)
    \/ ShutdownEnd(LifecycleNode)
    \/ ShutdownNotRunning(LifecycleNode)
    \/ StartAgain(LifecycleNode)
    \/ GCRunReturn(LifecycleNode)
    \/ ShutdownPanics(LifecycleNode)
    \/ NewAgent(LifecycleNode)
    \/ StreamOpen("s1", LifecycleNode)
    \/ \E proto \in MeshProtos : StreamRecv("s1", proto)
    \/ StreamReconcile("s1")
    \/ \E ok \in BOOLEAN : StreamAppend("s1", ok)
    \/ StreamBroadcast("s1", {})
    \/ StreamClose("s1")

LifecycleSpec == LifecycleInit /\ [][LifecycleNext]_vars

\* ------------------------------------------------------- replay of a log
\* An agent constructed on a log file that an agent wrote earlier: lines of
\* k-paks it accepted, empty lines, lines cut short by a crash.  The file may
\* have been removed after NewWAL opened it.
ReplayNode == "n1"

ReplayKpaks ==
    {RegenerateComputedFields(
        [subject |-> c[1], predicate |-> c[2], object |-> c[3], source |-> c[4],
         confidence |-> c[5], timestamp |-> c[6], expires_at |-> c[7],
         id |-> <<>>, spid |-> <<>>]) :
        c \in {<<"Alice", "age", "25", "Source1", 80, 1, 2>>,
               <<"Alice", "age", "26", "Source2", 80, 1, 0>>,
               <<"Alice", "age", "27", "Source3", 50, 2, 0>>,
               <<"Bob", "height", "6ft", "Source2", 70, 1, 0>>}}

EmptyLine == <<>>
CorruptedLine == <<"invalid json line">>

ReplayLines == {ToJSON(k) : k \in ReplayKpaks} \cup {EmptyLine, CorruptedLine}

\* An agent appends a k-pak only when Reconcile accepted it: the key was
\* empty (at first, or after a GC pass removed an expired claim) or the k-pak
\* is more trusted than the one logged before it under the key
Appendable(file) ==
    \A j \in 1..Len(file) :
        FromJSON(file[j]).ok =>
            LET k == FromJSON(file[j]).kpak
                before == {i \in 1..(j - 1) : /\ FromJSON(file[i]).ok
                                               /\ FromJSON(file[i]).kpak.spid = k.spid}
            IN  before # {} =>
                  LET prev == FromJSON(file[CHOOSE i \in before :
                                                \A h \in before : h <= i]).kpak
                  IN  IsMoreTrustedThan(k, prev) \/ prev.expires_at # 0

LogFiles ==
    {file \in UNION {[1..len -> ReplayLines] : len \in 0..MaxLog} : Appendable(file)}

ReplayInit ==
    /\ now = 1
    /\ engine = [n \in Nodes |-> NewEngine]
    /\ ret = FALSE /\ hist = <<>> /\ base = <<>> /\ ncalls = 0 /\ removed = 0
    /\ config = [n \in Nodes |-> [DefaultTTLSeconds |-> 0, GCEnabled |-> TRUE]]
    /\ agent = [n \in Nodes |-> IF n = ReplayNode THEN "new" ELSE "absent"]
    /\ \E file \in LogFiles, exists \in BOOLEAN :
          /\ ~exists => file = <<>>
          /\ wal = [n \in Nodes |-> IF n = ReplayNode THEN file ELSE <<>>]
          /\ walExists = [n \in Nodes |-> n # ReplayNode \/ exists]
    /\ walOpen = [n \in Nodes |-> n = ReplayNode]
    /\ members = [n \in Nodes |-> {}]
    /\ net = EmptyBag
    /\ handler = [n \in Nodes |-> <<>>]
    /\ stream = [s \in Streams |-> NewStream]
    /\ everAccepted = {}
    /\ appendFailed = [n \in Nodes |-> FALSE]
    /\ snapshot = [n \in Nodes |-> <<>>]
    /\ replayed = [n \in Nodes |-> FALSE]
    /\ restarts = 0
    /\ loaded = [n \in Nodes |-> <<>>]
    /\ lastCall = [n \in Nodes |-> NoCall]
    /\ gc = [n \in Nodes |-> NewGarbageCollector]
    /\ caller = [c \in GCCallers |-> "idle"]
    /\ loading = [n \in Nodes |-> <<>>]
    /\ thread = NoThreads
    /\ metrics = [n \in Nodes |-> NewMetrics]

\* a further call of Agent.loadFromWAL on the agent, after the one Start made
LoadAgain(n) ==
    LET l == loadFromWAL(engine[n], walExists[n], wal[n])
    IN  /\ agent[n] = "serving"
        /\ Len(loaded[n]) < MaxCalls
        /\ engine' = [engine EXCEPT ![n] = l.engine]
        /\ loaded' = [loaded EXCEPT ![n] = Append(@, l.report)]
        /\ UNCHANGED <<now, engineVars, config, agent, wal, walOpen, members, net,
                       handler, stream, everAccepted, appendFailed, snapshot,
                       replayed, restarts, walExists, lastCall, gc, caller,
                       loading, thread, metrics>>

ReplayNext ==
    \/ StartLoad(ReplayNode)
    \/ LoadAgain(ReplayNode)

ReplaySpec == ReplayInit /\ [][ReplayNext]_vars

\* ------------------------------------------------------ traffic at start
\* An agent is started on the log an earlier run wrote while a peer is running
\* already: clients stream claims to both, the peer gossips what it accepts,
\* the collector's ticker fires and the clock advances.
StartupNode == "n1"
StartupPeer == "n2"

StartupLogs ==
    {file \in LogFiles :
        Len(file) < MaxLog /\ \A i \in 1..Len(file) : FromJSON(file[i]).ok}

StartupProtos ==
    {[subject |-> "Alice", predicate |-> "age", object |-> c[1],
      source |-> c[2], confidence |-> c[3], timestamp |-> 0, expires_at |-> 0] :
        c \in {<<"28", "Source4", 90>>}}

StartupInit ==
    /\ now = 1
    /\ engine = [n \in Nodes |-> NewEngine]
    /\ ret = FALSE /\ hist = <<>> /\ base = <<>> /\ ncalls = 0 /\ removed = 0
    /\ config = [n \in Nodes |-> [DefaultTTLSeconds |-> 0, GCEnabled |-> TRUE]]
    /\ agent = [n \in Nodes |-> IF n = StartupNode THEN "new"
                                ELSE IF n = StartupPeer THEN "running"
                                ELSE "absent"]
    /\ wal \in {[n \in Nodes |-> IF n = StartupNode THEN file ELSE <<>>] :
                   file \in StartupLogs}
    /\ walOpen = [n \in Nodes |-> n \in {StartupNode, StartupPeer}]
    /\ members = [n \in Nodes |-> IF n = StartupPeer THEN {n} ELSE {}]
    /\ net = EmptyBag
    /\ handler = [n \in Nodes |-> <<>>]
    /\ stream = [s \in Streams |-> NewStream]
    /\ everAccepted = {}
    /\ appendFailed = [n \in Nodes |-> FALSE]
    /\ snapshot = [n \in Nodes |-> <<>>]
    /\ replayed = [n \in Nodes |-> FALSE]
    /\ restarts = 0
    /\ loaded = [n \in Nodes |->
                    IF n = StartupPeer
                    THEN <<loadFromWAL(NewEngine, TRUE, <<>>).report>>
                    ELSE <<>>]
    /\ walExists = [n \in Nodes |-> TRUE]
    /\ lastCall = [n \in Nodes |-> IF n = StartupPeer
                                   THEN CallResult("Start", FALSE, "end")
                                   ELSE NoCall]
    /\ gc = [n \in Nodes |-> IF n = StartupPeer
                             THEN GCStart(NewGarbageCollector, TRUE)
                             ELSE NewGarbageCollector]
    /\ caller = [c \in GCCallers |-> "idle"]
    /\ loading = [n \in Nodes |-> <<>>]
    /\ thread = NoThreads
    /\ metrics = [n \in Nodes |-> NewMetrics]

StartupNext ==
    \/ StartBegin(StartupNode)
    \/ ReplayStep(StartupNode)
    \/ StartServe(StartupNode)
    \/ StartGossip(StartupNode)
    \/ Join(StartupNode, StartupPeer)
    \/ StreamOpen("s1", StartupNode)
    \/ StreamOpen("s2", StartupPeer)
    \/ \E s \in Streams, proto \in StartupProtos : StreamRecv(s, proto)
    \/ \E s \in Streams : StreamReconcile(s)
    \/ \E s \in Streams : StreamAppend(s, TRUE)
    \/ \E s \in Streams :
            StreamBroadcast(s, members[stream[s].node] \ {stream[s].node})
    \/ \E s \in Streams : StreamClose(s)
    \/ \E n \in {StartupNode, StartupPeer}, pkt \in DOMAIN net : NotifyMsg(n, pkt)
    \/ \E n \in {StartupNode, StartupPeer} : HandlerAppend(n, TRUE)
    \/ GCPass(StartupNode)
    \/ Tick

StartupSpec == StartupInit /\ [][StartupNext]_vars

\* ------------------------------------------------------ protos on ingest
\* One agent with or without a default TTL; its client streams protos whose
\* timestamp is unset (0), or set, and whose expires_at is unset (0), past or
\* ahead.  The source names the combination.
ConversionNode == "n1"

ConversionProtos ==
    {[subject |-> "Alice", predicate |-> "age", object |-> "25",
      source |-> c[1], confidence |-> 80, timestamp |-> c[2], expires_at |-> c[3]] :
        c \in {<<"t0-e0", 0, 0>>, <<"t0-e1", 0, 1>>, <<"t0-e3", 0, 3>>,
               <<"t2-e0", 2, 0>>, <<"t2-e1", 2, 1>>, <<"t2-e3", 2, 3>>}}

ConversionInit == MeshInit({ConversionNode}, {0, 1})

ConversionNext ==
    \/ StartLoad(ConversionNode)
    \/ StartGossip(ConversionNode)
    \/ StreamOpen("s1", ConversionNode)
    \/ \E proto \in ConversionProtos : StreamRecv("s1", proto)
    \/ StreamReconcile("s1")
    \/ StreamAppend("s1", TRUE)
    \/ StreamBroadcast("s1", {})
    \/ StreamClose("s1")
    \/ GCPass(ConversionNode)
    \/ Tick

ConversionSpec == ConversionInit /\ [][ConversionNext]_vars

\* ------------------------------------------------ a collector on its own
\* A collector built on an engine by NewGarbageCollector, enabled, and
\* goroutines that each call Start and, later, Stop on it.  A panic ends the
\* process.
CollectorNode == "n1"

\* A claim made at clock 1 with a TTL of one second
CollectorKpak == NewKpakWithTTL("server1", "status", "up", "probe", 50, 1, 1)

CollectorInit ==
    /\ now = 1
    /\ engine = [n \in Nodes |-> IF n = CollectorNode
                                 THEN Reconcile(NewEngine, CollectorKpak).engine
                                 ELSE NewEngine]
    /\ ret = FALSE /\ hist = <<>> /\ base = <<>> /\ ncalls = 0 /\ removed = 0
    /\ config = [n \in Nodes |-> [DefaultTTLSeconds |-> 0,
                                  GCEnabled |-> n = CollectorNode]]
    /\ agent = [n \in Nodes |-> "absent"]
    /\ wal = [n \in Nodes |-> <<>>]
    /\ walOpen = [n \in Nodes |-> FALSE]
    /\ members = [n \in Nodes |-> {}]
    /\ net = EmptyBag
    /\ handler = [n \in Nodes |-> <<>>]
    /\ stream = [s \in Streams |-> NewStream]
    /\ everAccepted = {}
    /\ appendFailed = [n \in Nodes |-> FALSE]
    /\ snapshot = [n \in Nodes |-> <<>>]
    /\ replayed = [n \in Nodes |-> FALSE]
    /\ restarts = 0
    /\ loaded = [n \in Nodes |-> <<>>]
    /\ walExists = [n \in Nodes |-> TRUE]
    /\ lastCall = [n \in Nodes |-> NoCall]
    /\ gc = [n \in Nodes |-> NewGarbageCollector]
    /\ caller = [c \in GCCallers |-> "start"]
    /\ loading = [n \in Nodes |-> <<>>]
    /\ thread = NoThreads
    /\ metrics = [n \in Nodes |-> NewMetrics]

Alive == \A c \in GCCallers : caller[c] # "panicked"

\* A goroutine calls gc.Start
CallStart(c) ==
    /\ Alive
    /\ caller[c] = "start"
    /\ gc' = [gc EXCEPT ![CollectorNode] = GCStart(@, config[CollectorNode].GCEnabled)]
    /\ caller' = [caller EXCEPT ![c] = "stop"]
    /\ UNCHANGED <<now, engine, engineVars, config, agent, wal, walOpen, members,
                   net, handler, stream, everAccepted, appendFailed, snapshot,
                   replayed, restarts, loaded, walExists, lastCall, loading, thread, metrics>>

\* The goroutine calls gc.Stop after its sleep
CallStop(c) ==
    LET r == GCStop(gc[CollectorNode])
    IN  /\ Alive
        /\ caller[c] = "stop"
        /\ gc' = [gc EXCEPT ![CollectorNode] = r.gc]
        /\ caller' = [caller EXCEPT ![c] = IF r.panic THEN "panicked" ELSE "done"]
        /\ UNCHANGED <<now, engine, engineVars, config, agent, wal, walOpen,
                       members, net, handler, stream, everAccepted, appendFailed,
                       snapshot, replayed, restarts, loaded, walExists, lastCall,
                       loading, thread, metrics>>

CollectorNext ==
    \/ \E c \in GCCallers : CallStart(c)
    \/ \E c \in GCCallers : CallStop(c)
    \/ Alive /\ GCRunReturn(CollectorNode)
    \/ Alive /\ GCPass(CollectorNode)
    \/ Alive /\ Tick

CollectorSpec == CollectorInit /\ [][CollectorNext]_vars

\* ------------------------------------------------- direct use of an Engine
\* The k-paks handed to Engine.Reconcile directly (as the engine's unit tests
\* do): every consistent k-pak over a small vocabulary.
EngineSubjects == {"Alice"}
EnginePredicates == {"age", "height"}
EngineContents == {<<"25", "S1">>, <<"26", "S2">>}
EngineConfidences == {50, 80}
EngineTimestamps == {1, 2}
EngineExpiries == {0, 2}

\* one claim about another subject
EngineOther ==
    RegenerateComputedFields(
        [subject |-> "Bob", predicate |-> "height", object |-> "6ft",
         source |-> "S2", confidence |-> 70, timestamp |-> 1, expires_at |-> 0,
         id |-> <<>>, spid |-> <<>>])

KpakUniverse ==
    {RegenerateComputedFields(
        [subject |-> s, predicate |-> p, object |-> oc[1], source |-> oc[2],
         confidence |-> c, timestamp |-> t, expires_at |-> x,
         id |-> <<>>, spid |-> <<>>]) :
        s \in EngineSubjects, p \in EnginePredicates, oc \in EngineContents,
        c \in EngineConfidences, t \in EngineTimestamps, x \in EngineExpiries}
    \cup {EngineOther}

EngineNode == "n1"

EngineInit ==
    /\ now = 1
    /\ engine = [n \in Nodes |-> NewEngine]
    /\ ret = FALSE
    /\ hist = <<>>
    /\ base = <<>>
    /\ ncalls = 0
    /\ removed = 0
    /\ MeshIdle

\* engine.Reconcile(kpak)
EngineReconcile(k) ==
    LET e == engine[EngineNode]
        r == Reconcile(e, k)
    IN  /\ ncalls < MaxCalls
        /\ ncalls' = ncalls + 1
        /\ engine' = [engine EXCEPT ![EngineNode] = r.engine]
        /\ ret' = r.accepted
        /\ hist' = Append(hist, [kpak |-> k, accepted |-> r.accepted,
                                  pre |-> Believed(e, k.spid),
                                  post |-> Believed(r.engine, k.spid)])
        /\ UNCHANGED <<now, base, removed, meshVars>>

\* engine.RemoveExpiredKpaks()
EnginePurge ==
    LET r == RemoveExpiredKpaks(engine[EngineNode], now)
    IN  /\ engine' = [engine EXCEPT ![EngineNode] = r.engine]
        /\ hist' = <<>>
        /\ base' = r.engine.truthStore
        /\ removed' = r.removed
        /\ UNCHANGED <<now, ret, ncalls, meshVars>>

\* the wall clock advances
EngineTick ==
    /\ now < MaxClock
    /\ now' = now + 1
    /\ UNCHANGED <<engine, ret, hist, base, ncalls, removed, meshVars>>

EngineNext ==
    \/ \E k \in KpakUniverse : EngineReconcile(k)
    \/ EnginePurge
    \/ EngineTick

EngineSpec == EngineInit /\ [][EngineNext]_vars

\* ------------------------------------------------- keys of an Engine
\* Direct calls on an engine with k-paks whose subject or predicate holds the
\* "|" character that GenerateSPID puts between them.
KeyPairs == {<<"a|b", "c">>, <<"a", "b|c">>, <<"a", "c">>}

KeyUniverse ==
    {RegenerateComputedFields(
        [subject |-> sp[1], predicate |-> sp[2], object |-> "v", source |-> "S",
         confidence |-> c, timestamp |-> 1, expires_at |-> x,
         id |-> <<>>, spid |-> <<>>]) :
        sp \in KeyPairs, c \in EngineConfidences, x \in EngineExpiries}

KeyNext ==
    \/ \E k \in KeyUniverse : EngineReconcile(k)
    \/ EnginePurge
    \/ EngineTick

KeySpec == EngineInit /\ [][KeyNext]_vars

\* ------------------------------------------------ the agent lock by lock
\* One running agent whose goroutines are followed mutex by mutex: every
\* Lock, every body under a lock and every deferred Unlock is a step.  The
\* mutexes are Agent.mutex ("agent"), GarbageCollector.mutex ("collector"),
\* Manager.mutex ("gossip"), Engine.mutex ("store", a read-write mutex) and
\* WAL.mutex ("log").
LockNode == "n1"
LockPeer == "n2"

\* What the client of the Ingest stream sends
LockProtos ==
    {[subject |-> "pluto", predicate |-> "is_planet", object |-> c[1],
      source |-> c[2], confidence |-> c[3], timestamp |-> 0, expires_at |-> c[4]] :
        c \in {<<"true", "OldText", 60, 0>>, <<"false", "IAU-2006", 99, 2>>}}

\* Datagrams of the peer's earlier broadcasts, still on their way
LockInbound ==
    {[dst |-> LockNode, data |-> GossipMessage(protoToKpak(proto, 0, 1))] :
        proto \in LockProtos}

LockInit ==
    /\ now = 2
    /\ engine = [n \in Nodes |-> NewEngine]
    /\ ret = FALSE /\ hist = <<>> /\ base = <<>> /\ ncalls = 0 /\ removed = 0
    /\ config = [n \in Nodes |-> [DefaultTTLSeconds |-> 0, GCEnabled |-> TRUE]]
    /\ agent = [n \in Nodes |-> IF n \in {LockNode, LockPeer} THEN "running"
                                ELSE "absent"]
    /\ wal = [n \in Nodes |-> <<>>]
    /\ walOpen = [n \in Nodes |-> n \in {LockNode, LockPeer}]
    /\ members = [n \in Nodes |-> IF n \in {LockNode, LockPeer}
                                  THEN {LockNode, LockPeer} ELSE {}]
    /\ net = SetToBag(LockInbound)
    /\ handler = [n \in Nodes |-> <<>>]
    /\ stream = [s \in Streams |-> NewStream]
    /\ everAccepted = {}
    /\ appendFailed = [n \in Nodes |-> FALSE]
    /\ snapshot = [n \in Nodes |-> <<>>]
    /\ replayed = [n \in Nodes |-> FALSE]
    /\ restarts = 0
    /\ loaded = [n \in Nodes |->
                    IF n \in {LockNode, LockPeer}
                    THEN <<loadFromWAL(NewEngine, TRUE, <<>>).report>>
                    ELSE <<>>]
    /\ walExists = [n \in Nodes |-> TRUE]
    /\ lastCall = [n \in Nodes |-> IF n \in {LockNode, LockPeer}
                                   THEN CallResult("Start", FALSE, "end")
                                   ELSE NoCall]
    /\ gc = [n \in Nodes |-> IF n \in {LockNode, LockPeer}
                             THEN GCStart(NewGarbageCollector, TRUE)
                             ELSE NewGarbageCollector]
    /\ caller = [c \in GCCallers |-> "idle"]
    /\ loading = [n \in Nodes |-> <<>>]
    /\ thread = NoThreads
    /\ metrics = [n \in Nodes |-> NewMetrics]

\* The variables no lock-level step changes, and those with the metrics,
\* which only a return to the agent's handlers changes
lockLocals == <<now, ret, hist, base, ncalls, removed, config, handler, stream,
                everAccepted, appendFailed, snapshot, replayed, restarts, loaded,
                walExists, caller, loading>>
lockIdle == <<lockLocals, metrics>>

\* What the agent's handler records once a call has returned to it: Ingest
\* and the k-pak handler count a rejected k-pak after Reconcile, Ingest
\* counts the k-pak by the result of Append, the k-pak handler counts it as
\* accepted whatever Append returned
Recorded(t, th) ==
    IF t \in {"ingest", "gossip"} /\ th.pc = "Reconcile:Unlock" /\ ~th.ok
    THEN RecordIngest(metrics[LockNode], th.kpak[1].source, FALSE)
    ELSE IF t \in {"ingest", "gossip"} /\ th.pc = "Append:Unlock"
    THEN RecordIngest(metrics[LockNode], th.kpak[1].source, t = "gossip" \/ th.ok)
    ELSE metrics[LockNode]

\* Where a goroutine calls Lock or RLock: the mutex, the mode and the
\* position once it has the mutex
LockSteps ==
    ("Reconcile:Lock" :> [lock |-> "store", mode |-> "w", next |-> "Reconcile"])
 @@ ("Append:Lock" :> [lock |-> "log", mode |-> "w", next |-> "Append"])
 @@ ("RemoveExpiredKpaks:Lock" :>
        [lock |-> "store", mode |-> "w", next |-> "RemoveExpiredKpaks"])
 @@ ("QueryBySubject:RLock" :>
        [lock |-> "store", mode |-> "r", next |-> "QueryBySubject"])
 @@ ("Shutdown:Lock" :> [lock |-> "agent", mode |-> "w", next |-> "gc.Stop:Lock"])
 @@ ("gc.Stop:Lock" :> [lock |-> "collector", mode |-> "w", next |-> "gc.Stop"])
 @@ ("gossip.Stop:Lock" :> [lock |-> "gossip", mode |-> "w", next |-> "gossip.Stop"])
 @@ ("Close:Lock" :> [lock |-> "log", mode |-> "w", next |-> "Close"])

\* Where a deferred Unlock or RUnlock runs: the mutex it releases
UnlockSteps ==
    ("Reconcile:Unlock" :> "store")
 @@ ("Append:Unlock" :> "log")
 @@ ("RemoveExpiredKpaks:Unlock" :> "store")
 @@ ("QueryBySubject:RUnlock" :> "store")
 @@ ("gc.Stop:Unlock" :> "collector")
 @@ ("gossip.Stop:Unlock" :> "gossip")
 @@ ("Close:Unlock" :> "log")
 @@ ("Shutdown:Unlock" :> "agent")

\* Where the caller goes on once the function it called has returned
Return(t, th) ==
    CASE th.pc = "Reconcile:Unlock" ->
            IF th.ok THEN "Append:Lock"
            ELSE IF t = "ingest" THEN "Recv" ELSE "idle"
      [] th.pc = "Append:Unlock" ->
            IF t = "ingest" THEN (IF th.ok THEN "BroadcastKpak" ELSE "Recv")
            ELSE "idle"
      [] th.pc = "RemoveExpiredKpaks:Unlock" -> "idle"
      [] th.pc = "QueryBySubject:RUnlock" -> "idle"
      [] th.pc = "gc.Stop:Unlock" -> "gossip.Stop:Lock"
      [] th.pc = "gossip.Stop:Unlock" -> "GracefulStop"
      [] th.pc = "Close:Unlock" -> "Shutdown:Return"
      [] th.pc = "Shutdown:Unlock" -> "done"

Holds(t, lock) == \E i \in 1..Len(thread[t].held) : thread[t].held[i].lock = lock

\* The goroutines whose hold on a mutex keeps a Lock (mode "w") or an RLock
\* (mode "r") of it waiting.  A mutex of Go is not reentrant: the caller's own
\* hold keeps it waiting too.
Holders(lock, mode) ==
    {u \in LockThreads :
        \E i \in 1..Len(thread[u].held) :
            /\ thread[u].held[i].lock = lock
            /\ (mode = "w" \/ thread[u].held[i].mode = "w")}

\* mutex.Lock() or mutex.RLock() returns
Acquire(t) ==
    /\ thread[t].pc \in DOMAIN LockSteps
    /\ LET w == LockSteps[thread[t].pc]
       IN  /\ Holders(w.lock, w.mode) = {}
           /\ thread' = [thread EXCEPT
                    ![t].held = Append(@, [lock |-> w.lock, mode |-> w.mode]),
                    ![t].pc = w.next]
    /\ UNCHANGED <<engine, agent, wal, walOpen, members, net, lastCall, gc, lockIdle>>

Release_KeepsStore(t) ==
    /\ thread[t].pc \in DOMAIN UnlockSteps
    /\ LET th == thread[t]
           n == Len(th.held)
       IN  /\ th.held[n].lock = UnlockSteps[th.pc]
           /\ thread' = [thread EXCEPT
                    ![t].held = IF th.held[n].lock = "store" /\ th.held[n].mode = "w"
                                THEN @ ELSE SubSeq(@, 1, n - 1),
                    ![t].pc = Return(t, th)]
           /\ metrics' = [metrics EXCEPT ![LockNode] = Recorded(t, th)]
    /\ UNCHANGED <<engine, agent, wal, walOpen, members, net, lastCall, gc,
                   lockLocals>>

\* the deferred mutex.Unlock() or mutex.RUnlock() runs and the function
\* returns to its caller
Release(t) ==
    /\ thread[t].pc \in DOMAIN UnlockSteps
    /\ LET th == thread[t]
           n == Len(th.held)
       IN  /\ th.held[n].lock = UnlockSteps[th.pc]
           /\ thread' = [thread EXCEPT
                    ![t].held = SubSeq(@, 1, n - 1),
                    ![t].pc = Return(t, th)]
           /\ metrics' = [metrics EXCEPT ![LockNode] = Recorded(t, th)]
    /\ UNCHANGED <<engine, agent, wal, walOpen, members, net, lastCall, gc,
                   lockLocals>>

\* The gRPC server takes new calls until GracefulStop is called
Accepting ==
    thread["shutdown"].pc \notin
        {"GracefulStop", "Close:Lock", "Close", "Close:Unlock", "Shutdown:Return",
         "Shutdown:Unlock", "done"}

\* a client opens the Ingest stream
IngestOpen ==
    /\ thread["ingest"].pc = "idle"
    /\ Accepting
    /\ thread' = [thread EXCEPT !["ingest"].pc = "Recv"]
    /\ UNCHANGED <<engine, agent, wal, walOpen, members, net, lastCall, gc, lockIdle>>

\* stream.Recv() returns a k-pak, protoToKpak converts it, Reconcile is called
IngestRecv(proto) ==
    /\ thread["ingest"].pc = "Recv"
    /\ thread["ingest"].calls < MaxStreamLen
    /\ thread' = [thread EXCEPT
            !["ingest"].pc = "Reconcile:Lock",
            !["ingest"].kpak =
                <<protoToKpak(proto, config[LockNode].DefaultTTLSeconds, now)>>,
            !["ingest"].calls = @ + 1]
    /\ UNCHANGED <<engine, agent, wal, walOpen, members, net, lastCall, gc, lockIdle>>

\* stream.Recv() reports the end of the stream: SendAndClose
IngestEnd ==
    /\ thread["ingest"].pc = "Recv"
    /\ thread' = [thread EXCEPT !["ingest"].pc = "done"]
    /\ UNCHANGED <<engine, agent, wal, walOpen, members, net, lastCall, gc, lockIdle>>

\* the body of Engine.Reconcile, under the store's write lock
DoReconcile(t) ==
    LET r == Reconcile(engine[LockNode], thread[t].kpak[1])
    IN  /\ thread[t].pc = "Reconcile"
        /\ engine' = [engine EXCEPT ![LockNode] = r.engine]
        /\ thread' = [thread EXCEPT ![t].pc = "Reconcile:Unlock",
                                    ![t].ok = r.accepted]
        /\ UNCHANGED <<agent, wal, walOpen, members, net, lastCall, gc, lockIdle>>

\* the body of WAL.Append, under the log's mutex: it fails on a closed file
DoAppend(t) ==
    /\ thread[t].pc = "Append"
    /\ wal' = IF walOpen[LockNode]
              THEN [wal EXCEPT ![LockNode] = Append(@, ToJSON(thread[t].kpak[1]))]
              ELSE wal
    /\ thread' = [thread EXCEPT ![t].pc = "Append:Unlock",
                                ![t].ok = walOpen[LockNode]]
    /\ UNCHANGED <<engine, agent, walOpen, members, net, lastCall, gc, lockIdle>>

\* Ingest's a.gossip.BroadcastKpak(kpak): no mutex is taken, the error is
\* only logged
IngestBroadcast ==
    LET b == BroadcastKpak(LockNode, thread["ingest"].kpak[1],
                           members[LockNode] \ {LockNode})
    IN  /\ thread["ingest"].pc = "BroadcastKpak"
        /\ net' = net (+) SetToBag(b.packets)
        /\ thread' = [thread EXCEPT !["ingest"].pc = "Recv"]
        /\ UNCHANGED <<engine, agent, wal, walOpen, members, lastCall, gc, lockIdle>>

\* memberlist hands a datagram to NotifyMsg; handleKpakMessage parses it and
\* calls the k-pak handler, which calls Reconcile
NotifyKpak(pkt) ==
    LET env == ParseEnvelope(pkt.data)
        parsed == FromJSON(env.msg.payload)
        handled == env.ok /\ env.msg.type = "kpak" /\ parsed.ok
    IN  /\ thread["gossip"].pc = "idle"
        /\ GossipRunning(LockNode)
        /\ BagIn(pkt, net) /\ pkt.dst = LockNode
        /\ net' = net (-) SetToBag({pkt})
        /\ thread' = [thread EXCEPT
                !["gossip"].pc = IF handled THEN "Reconcile:Lock" ELSE "idle",
                !["gossip"].kpak = IF handled THEN <<parsed.kpak>> ELSE <<>>]
        /\ UNCHANGED <<engine, agent, wal, walOpen, members, lastCall, gc, lockIdle>>

\* the collector's ticker fires: run calls collectGarbage
TickerFires ==
    /\ thread["collector"].pc = "idle"
    /\ GCRunning(LockNode)
    /\ thread["collector"].calls < MaxRounds
    /\ thread' = [thread EXCEPT !["collector"].pc = "RemoveExpiredKpaks:Lock",
                                !["collector"].calls = @ + 1]
    /\ UNCHANGED <<engine, agent, wal, walOpen, members, net, lastCall, gc, lockIdle>>

\* the body of Engine.RemoveExpiredKpaks, under the store's write lock
DoRemoveExpired ==
    /\ thread["collector"].pc = "RemoveExpiredKpaks"
    /\ engine' = [engine EXCEPT
            ![LockNode] = RemoveExpiredKpaks(engine[LockNode], now).engine]
    /\ thread' = [thread EXCEPT !["collector"].pc = "RemoveExpiredKpaks:Unlock"]
    /\ UNCHANGED <<agent, wal, walOpen, members, net, lastCall, gc, lockIdle>>

\* a client calls Query: the query is counted, then the store is read
QueryCall ==
    /\ thread["query"].pc = "idle"
    /\ Accepting
    /\ thread["query"].calls < MaxRounds
    /\ thread' = [thread EXCEPT !["query"].pc = "QueryBySubject:RLock",
                                !["query"].calls = @ + 1]
    /\ metrics' = [metrics EXCEPT ![LockNode] = RecordQuery(@)]
    /\ UNCHANGED <<engine, agent, wal, walOpen, members, net, lastCall, gc,
                   lockLocals>>

\* the body of Engine.QueryBySubject, under the store's read lock
DoQuery ==
    /\ thread["query"].pc = "QueryBySubject"
    /\ thread' = [thread EXCEPT !["query"].pc = "QueryBySubject:RUnlock"]
    /\ UNCHANGED <<engine, agent, wal, walOpen, members, net, lastCall, gc, lockIdle>>

\* Agent.Shutdown is called
ShutdownCall ==
    /\ thread["shutdown"].pc = "idle"
    /\ agent[LockNode] = "running"
    /\ thread' = [thread EXCEPT !["shutdown"].pc = "Shutdown:Lock"]
    /\ UNCHANGED <<engine, agent, wal, walOpen, members, net, lastCall, gc, lockIdle>>

\* the body of GarbageCollector.Stop up to wg.Wait: running is cleared and
\* stopChan is closed
StopCollector ==
    /\ thread["shutdown"].pc = "gc.Stop"
    /\ ~GCStop(gc[LockNode]).panic
    /\ gc' = [gc EXCEPT ![LockNode] = GCStop(@).gc]
    /\ thread' = [thread EXCEPT !["shutdown"].pc = "gc.Stop:Wait"]
    /\ UNCHANGED <<engine, agent, wal, walOpen, members, net, lastCall, lockIdle>>

\* gc.wg.Wait() returns: the run goroutine has left its loop
WaitCollector ==
    /\ thread["shutdown"].pc = "gc.Stop:Wait"
    /\ thread["collector"].pc = "idle"
    /\ thread' = [thread EXCEPT !["shutdown"].pc = "gc.Stop:Unlock"]
    /\ UNCHANGED <<engine, agent, wal, walOpen, members, net, lastCall, gc, lockIdle>>

\* the body of Manager.Stop: the node leaves the mesh, memberlist is shut
\* down, running is cleared
StopGossip ==
    /\ thread["shutdown"].pc = "gossip.Stop"
    /\ agent' = [agent EXCEPT ![LockNode] = "stopping"]
    /\ members' = [m \in Nodes |-> IF m = LockNode THEN {}
                                   ELSE members[m] \ {LockNode}]
    /\ net' = [pkt \in {q \in DOMAIN net : q.dst # LockNode} |-> net[pkt]]
    /\ thread' = [thread EXCEPT !["shutdown"].pc = "gossip.Stop:Unlock"]
    /\ UNCHANGED <<engine, wal, walOpen, lastCall, gc, lockIdle>>

\* a.server.GracefulStop() returns: every call in progress has ended
GracefulStop ==
    /\ thread["shutdown"].pc = "GracefulStop"
    /\ thread["ingest"].pc \in {"idle", "done"}
    /\ thread["query"].pc = "idle"
    /\ thread' = [thread EXCEPT !["shutdown"].pc = "Close:Lock"]
    /\ UNCHANGED <<engine, agent, wal, walOpen, members, net, lastCall, gc, lockIdle>>

\* the body of WAL.Close, under the log's mutex
CloseLog ==
    /\ thread["shutdown"].pc = "Close"
    /\ walOpen' = [walOpen EXCEPT ![LockNode] = FALSE]
    /\ thread' = [thread EXCEPT !["shutdown"].pc = "Close:Unlock"]
    /\ UNCHANGED <<engine, agent, wal, members, net, lastCall, gc, lockIdle>>

\* a.running = false; return nil
ClearRunning ==
    /\ thread["shutdown"].pc = "Shutdown:Return"
    /\ agent' = [agent EXCEPT ![LockNode] = "stopped"]
    /\ lastCall' = [lastCall EXCEPT ![LockNode] = CallResult("Shutdown", FALSE, "end")]
    /\ thread' = [thread EXCEPT !["shutdown"].pc = "Shutdown:Unlock"]
    /\ UNCHANGED <<engine, wal, walOpen, members, net, gc, lockIdle>>

LockNext ==
    \/ \E t \in LockThreads : Acquire(t)
    \/ \E t \in LockThreads : Release(t)
    \/ IngestOpen
    \/ \E proto \in LockProtos : IngestRecv(proto)
    \/ IngestEnd
    \/ \E t \in {"ingest", "gossip"} : DoReconcile(t)
    \/ \E t \in {"ingest", "gossip"} : DoAppend(t)
    \/ IngestBroadcast
    \/ \E pkt \in DOMAIN net : NotifyKpak(pkt)
    \/ TickerFires
    \/ DoRemoveExpired
    \/ QueryCall
    \/ DoQuery
    \/ ShutdownCall
    \/ StopCollector
    \/ WaitCollector
    \/ StopGossip
    \/ GracefulStop
    \/ CloseLog
    \/ ClearRunning

LockSpec == LockInit /\ [][LockNext]_vars

\* -------------------------------------- any calls of Start and Stop
\* One GarbageCollector, enabled or disabled, on an engine that holds a claim
\* about to expire; Start and Stop are called in any order (the collector's
\* mutex makes the calls take place one after the other).
TaskNode == "n1"

TaskInit ==
    /\ now = 1
    /\ engine = [n \in Nodes |-> IF n = TaskNode
                                 THEN Reconcile(NewEngine, CollectorKpak).engine
                                 ELSE NewEngine]
    /\ ret = FALSE /\ hist = <<>> /\ base = <<>> /\ ncalls = 0 /\ removed = 0
    /\ config \in {[n \in Nodes |-> [DefaultTTLSeconds |-> 0,
                                     GCEnabled |-> n = TaskNode /\ enabled]] :
                      enabled \in BOOLEAN}
    /\ agent = [n \in Nodes |-> "absent"]
    /\ wal = [n \in Nodes |-> <<>>]
    /\ walOpen = [n \in Nodes |-> FALSE]
    /\ members = [n \in Nodes |-> {}]
    /\ net = EmptyBag
    /\ handler = [n \in Nodes |-> <<>>]
    /\ stream = [s \in Streams |-> NewStream]
    /\ everAccepted = {}
    /\ appendFailed = [n \in Nodes |-> FALSE]
    /\ snapshot = [n \in Nodes |-> <<>>]
    /\ replayed = [n \in Nodes |-> FALSE]
    /\ restarts = 0
    /\ loaded = [n \in Nodes |-> <<>>]
    /\ walExists = [n \in Nodes |-> TRUE]
    /\ lastCall = [n \in Nodes |-> NoCall]
    /\ gc = [n \in Nodes |-> NewGarbageCollector]
    /\ caller = [c \in GCCallers |-> "idle"]
    /\ loading = [n \in Nodes |-> <<>>]
    /\ thread = NoThreads
    /\ metrics = [n \in Nodes |-> NewMetrics]

\* gc.Start() is called, takes the collector's mutex and returns
TaskStart ==
    /\ Alive
    /\ caller["g1"] = "idle"
    /\ ncalls < MaxTaskCalls
    /\ ncalls' = ncalls + 1
    /\ gc' = [gc EXCEPT ![TaskNode] = GCStart(@, config[TaskNode].GCEnabled)]
    /\ lastCall' = [lastCall EXCEPT
            ![TaskNode] = CallResult("gc.Start", FALSE,
                                     IF ~config[TaskNode].GCEnabled \/ gc[TaskNode].running
                                     THEN "check" ELSE "end")]
    /\ UNCHANGED <<now, engine, ret, hist, base, removed, config, agent, wal,
                   walOpen, members, net, handler, stream, everAccepted,
                   appendFailed, snapshot, replayed, restarts, loaded, walExists,
                   caller, loading, thread, metrics>>

\* gc.Stop() is called and takes the collector's mutex: it returns at once
\* when the collector is not running, else it clears running, closes
\* stopChan (or panics) and comes to gc.wg.Wait()
TaskStop ==
    LET r == GCStop(gc[TaskNode])
    IN  /\ Alive
        /\ caller["g1"] = "idle"
        /\ ncalls < MaxTaskCalls
        /\ ncalls' = ncalls + 1
        /\ gc' = [gc EXCEPT ![TaskNode] = r.gc]
        /\ lastCall' = IF gc[TaskNode].running THEN lastCall
                       ELSE [lastCall EXCEPT
                                ![TaskNode] = CallResult("gc.Stop", FALSE, "check")]
        /\ caller' = [caller EXCEPT
                !["g1"] = IF r.panic THEN "panicked"
                          ELSE IF gc[TaskNode].running THEN "waiting" ELSE @]
        /\ UNCHANGED <<now, engine, ret, hist, base, removed, config, agent, wal,
                       walOpen, members, net, handler, stream, everAccepted,
                       appendFailed, snapshot, replayed, restarts, loaded,
                       walExists, loading, thread, metrics>>

TaskStopReturn_NoWait ==
    /\ caller["g1"] = "waiting"
    /\ caller' = [caller EXCEPT !["g1"] = "idle"]
    /\ lastCall' = [lastCall EXCEPT ![TaskNode] = CallResult("gc.Stop", FALSE, "end")]
    /\ UNCHANGED <<now, engine, engineVars, config, agent, wal, walOpen, members,
                   net, handler, stream, everAccepted, appendFailed, snapshot,
                   replayed, restarts, loaded, walExists, gc, loading, thread, metrics>>

\* gc.wg.Wait() returns, the run goroutine having left its loop, and Stop
\* returns
TaskStopReturn ==
    /\ caller["g1"] = "waiting"
    /\ thread["collector"].pc = "idle"
    /\ caller' = [caller EXCEPT !["g1"] = "idle"]
    /\ lastCall' = [lastCall EXCEPT ![TaskNode] = CallResult("gc.Stop", FALSE, "end")]
    /\ UNCHANGED <<now, engine, engineVars, config, agent, wal, walOpen, members,
                   net, handler, stream, everAccepted, appendFailed, snapshot,
                   replayed, restarts, loaded, walExists, gc, loading, thread, metrics>>

TaskNext ==
    \/ TaskStart
    \/ TaskStop
    \/ TaskStopReturn
    \/ Alive /\ GCRunReturn(TaskNode)
    \/ Alive /\ TickerFires
    \/ Alive /\ Acquire("collector")
    \/ Alive /\ DoRemoveExpired
    \/ Alive /\ Release("collector")
    \/ Alive /\ Tick

TaskSpec == TaskInit /\ [][TaskNext]_vars

\* ------------------------------------------- what arrives from the network
\* A node whose agent runs, with datagrams on their way to it: gossip
\* messages of its peer, and datagrams that NotifyMsg or handleKpakMessage
\* cannot use
InboundNode == "n1"
InboundPeer == "n2"

\* bytes that are no JSON text
InvalidDatagram == [raw |-> "not json"]

\* an envelope of another type around the JSON text of a k-pak
UnknownMessage(k) == [type |-> "ping", payload |-> ToJSON(k)]

\* a k-pak envelope around a payload that is no k-pak object
BadPayloadMessage == [type |-> "kpak", payload |-> CorruptedLine]

InboundKpaks == {protoToKpak(proto, 0, 1) : proto \in LockProtos}

InboundData ==
    {GossipMessage(k) : k \in InboundKpaks}
        \cup {UnknownMessage(k) : k \in {kk \in InboundKpaks : kk.confidence = 99}}
        \cup {InvalidDatagram, BadPayloadMessage}

InboundInit ==
    /\ now = 1
    /\ engine = [n \in Nodes |-> NewEngine]
    /\ ret = FALSE /\ hist = <<>> /\ base = <<>> /\ ncalls = 0 /\ removed = 0
    /\ config = [n \in Nodes |-> [DefaultTTLSeconds |-> 0, GCEnabled |-> TRUE]]
    /\ agent = [n \in Nodes |-> IF n \in {InboundNode, InboundPeer} THEN "running"
                                ELSE "absent"]
    /\ wal = [n \in Nodes |-> <<>>]
    /\ walOpen = [n \in Nodes |-> n \in {InboundNode, InboundPeer}]
    /\ members = [n \in Nodes |-> IF n \in {InboundNode, InboundPeer}
                                  THEN {InboundNode, InboundPeer} ELSE {}]
    /\ net = SetToBag({[dst |-> InboundNode, data |-> d] : d \in InboundData})
    /\ handler = [n \in Nodes |-> <<>>]
    /\ stream = [s \in Streams |-> NewStream]
    /\ everAccepted = {}
    /\ appendFailed = [n \in Nodes |-> FALSE]
    /\ snapshot = [n \in Nodes |-> <<>>]
    /\ replayed = [n \in Nodes |-> FALSE]
    /\ restarts = 0
    /\ loaded = [n \in Nodes |->
                    IF n \in {InboundNode, InboundPeer}
                    THEN <<loadFromWAL(NewEngine, TRUE, <<>>).report>>
                    ELSE <<>>]
    /\ walExists = [n \in Nodes |-> TRUE]
    /\ lastCall = [n \in Nodes |-> IF n \in {InboundNode, InboundPeer}
                                   THEN CallResult("Start", FALSE, "end")
                                   ELSE NoCall]
    /\ gc = [n \in Nodes |-> IF n \in {InboundNode, InboundPeer}
                             THEN GCStart(NewGarbageCollector, TRUE)
                             ELSE NewGarbageCollector]
    /\ caller = [c \in GCCallers |-> "idle"]
    /\ loading = [n \in Nodes |-> <<>>]
    /\ thread = NoThreads
    /\ metrics = [n \in Nodes |-> NewMetrics]

InboundNext ==
    \/ \E pkt \in DOMAIN net : NotifyMsg(InboundNode, pkt)
    \/ \E ok \in BOOLEAN : HandlerAppend(InboundNode, ok)
    \/ \E s \in MeshStreams : StreamOpen(s, InboundNode)
    \/ \E s \in MeshStreams, proto \in LockProtos : StreamRecv(s, proto)
    \/ \E s \in MeshStreams : StreamReconcile(s)
    \/ \E s \in MeshStreams, ok \in BOOLEAN : StreamAppend(s, ok)
    \/ \E s \in MeshStreams, arrive \in SUBSET {InboundPeer} :
            StreamBroadcast(s, arrive)
    \/ \E s \in MeshStreams : StreamClose(s)
    \/ GCPass(InboundNode)
    \/ Tick

InboundSpec == InboundInit /\ [][InboundNext]_vars

\* ---------------------------------------------- the counters, call by call
\* One running agent: its Ingest stream and its k-pak handler reconcile
\* k-paks and call RecordIngest, each atomic add a step of its own, while
\* clients call Query
MetricsNode == "n1"
MetricsCallers == {"ingest", "gossip"}

\* Ingest or the k-pak handler has the result of Reconcile (and Ingest that
\* of Append, ok) and calls RecordIngest
MetricsReconcile(t, k, ok) ==
    LET r == Reconcile(engine[MetricsNode], k)
    IN  /\ thread[t].pc = "idle"
        /\ thread[t].calls < MaxCalls
        /\ t = "gossip" => ok
        /\ engine' = [engine EXCEPT ![MetricsNode] = r.engine]
        /\ thread' = [thread EXCEPT ![t].pc = "RecordIngest",
                                    ![t].kpak = <<k>>,
                                    ![t].ok = r.accepted /\ ok]
        /\ UNCHANGED <<agent, wal, walOpen, members, net, lastCall, gc, lockIdle>>

AddIngestedStep_Plain(t) ==
    /\ thread[t].pc = "RecordIngest"
    /\ \E seen \in 0..metrics[MetricsNode].totalIngestedKpaks :
            /\ (\A u \in MetricsCallers \ {t} : thread[u].pc = "idle")
                    => seen = metrics[MetricsNode].totalIngestedKpaks
            /\ metrics' = [metrics EXCEPT
                    ![MetricsNode].totalIngestedKpaks = seen + 1]
    /\ thread' = [thread EXCEPT ![t].pc = "RecordIngest:outcome"]
    /\ UNCHANGED <<engine, agent, wal, walOpen, members, net, lastCall, gc,
                   lockLocals>>

\* RecordIngest's atomic.AddInt64(&m.totalIngestedKpaks, 1)
AddIngestedStep(t) ==
    /\ thread[t].pc = "RecordIngest"
    /\ metrics' = [metrics EXCEPT ![MetricsNode] = AddIngested(@)]
    /\ thread' = [thread EXCEPT ![t].pc = "RecordIngest:outcome"]
    /\ UNCHANGED <<engine, agent, wal, walOpen, members, net, lastCall, gc,
                   lockLocals>>

\* RecordIngest's atomic add to the accepted or the rejected counter, the
\* entry of the source, and the return
AddOutcomeStep(t) ==
    /\ thread[t].pc = "RecordIngest:outcome"
    /\ metrics' = [metrics EXCEPT
            ![MetricsNode] = AddOutcome(@, thread[t].kpak[1].source, thread[t].ok)]
    /\ thread' = [thread EXCEPT ![t].pc = "idle", ![t].calls = @ + 1]
    /\ UNCHANGED <<engine, agent, wal, walOpen, members, net, lastCall, gc,
                   lockLocals>>

\* Agent.Query: RecordQuery at entry, then the store is read
MetricsQuery(subject) ==
    /\ thread["query"].pc = "idle"
    /\ thread["query"].calls < MaxCalls
    /\ metrics' = [metrics EXCEPT ![MetricsNode] = RecordQuery(@)]
    /\ thread' = [thread EXCEPT
            !["query"].pc = "Send",
            !["query"].kpak = QueryBySubject(engine[MetricsNode], subject)]
    /\ UNCHANGED <<engine, agent, wal, walOpen, members, net, lastCall, gc,
                   lockLocals>>

\* Agent.Query has streamed its results and returns
MetricsQueryReturn ==
    /\ thread["query"].pc = "Send"
    /\ thread' = [thread EXCEPT !["query"].pc = "idle", !["query"].calls = @ + 1]
    /\ UNCHANGED <<engine, agent, wal, walOpen, members, net, lastCall, gc, lockIdle>>

MetricsNext ==
    \/ \E t \in MetricsCallers, k \in InboundKpaks, ok \in BOOLEAN :
            MetricsReconcile(t, k, ok)
    \/ \E t \in MetricsCallers : AddIngestedStep(t)
    \/ \E t \in MetricsCallers : AddOutcomeStep(t)
    \/ \E subject \in {"pluto", "ceres"} : MetricsQuery(subject)
    \/ MetricsQueryReturn

MetricsSpec == InboundInit /\ [][MetricsNext]_vars

\* ------------------------------------------------- a Start that fails
\* An agent on a log of earlier runs whose Start returns an error, and what
\* the caller does next: Shutdown, or Start once more
FailNode == "n1"

\* The last call that returned is a Start that returned an error from a
\* step after the test of a.running, and no later Start is under way
StartFailed(n) ==
    /\ lastCall[n].op = "Start" /\ lastCall[n].err /\ lastCall[n].at # "check"
    /\ agent[n] # "serving"

\* Agent.Start whose loadFromWAL fails (wal.Load cannot open or read the
\* file): "failed to load from WAL"; no k-pak was reconciled
StartFailsLoad(n) ==
    /\ agent[n] = "new"
    /\ walExists[n]
    /\ loaded' = [loaded EXCEPT ![n] =
            Append(@, [kpaks |-> <<>>, accepted |-> 0, err |-> TRUE])]
    /\ lastCall' = [lastCall EXCEPT ![n] = CallResult("Start", TRUE, "load")]
    /\ UNCHANGED <<now, engine, engineVars, config, agent, wal, walOpen, members,
                   net, handler, stream, everAccepted, appendFailed, snapshot,
                   replayed, restarts, walExists, gc, caller, loading, thread,
                   metrics>>

\* Agent.Start whose startGRPCServer fails (net.Listen: the port is taken):
\* "failed to start gRPC server"; the log was replayed into the engine
StartFailsListen(n) ==
    LET l == loadFromWAL(engine[n], walExists[n], wal[n])
    IN  /\ agent[n] = "new"
        /\ engine' = [engine EXCEPT ![n] = l.engine]
        /\ loaded' = [loaded EXCEPT ![n] = Append(@, l.report)]
        /\ lastCall' = [lastCall EXCEPT ![n] = CallResult("Start", TRUE, "listen")]
        /\ UNCHANGED <<now, engineVars, config, agent, wal, walOpen, members,
                       net, handler, stream, everAccepted, appendFailed, snapshot,
                       replayed, restarts, walExists, gc, caller, loading, thread,
                       metrics>>

\* Agent.Start whose gossip.Start fails (memberlist.Create: the gossip port
\* is taken): "failed to start gossip manager"; the log was replayed and the
\* gRPC server's goroutine serves, with a.running clear ("orphaned")
StartFailsGossip(n) ==
    LET l == loadFromWAL(engine[n], walExists[n], wal[n])
    IN  /\ agent[n] = "new"
        /\ engine' = [engine EXCEPT ![n] = l.engine]
        /\ loaded' = [loaded EXCEPT ![n] = Append(@, l.report)]
        /\ agent' = [agent EXCEPT ![n] = "orphaned"]
        /\ lastCall' = [lastCall EXCEPT ![n] = CallResult("Start", TRUE, "gossip")]
        /\ UNCHANGED <<now, engineVars, config, wal, walOpen, members, net,
                       handler, stream, everAccepted, appendFailed, snapshot,
                       replayed, restarts, walExists, gc, caller, loading, thread,
                       metrics>>

\* Agent.Start once more while the server of a failed Start serves:
\* a.running is clear, the log is replayed into the engine as it is, and
\* net.Listen fails on the port the serving listener holds
StartAfterFailedGossip(n) ==
    LET l == loadFromWAL(engine[n], walExists[n], wal[n])
    IN  /\ agent[n] = "orphaned"
        /\ Len(loaded[n]) < MaxCalls
        /\ engine' = [engine EXCEPT ![n] = l.engine]
        /\ loaded' = [loaded EXCEPT ![n] = Append(@, l.report)]
        /\ lastCall' = [lastCall EXCEPT ![n] = CallResult("Start", TRUE, "listen")]
        /\ UNCHANGED <<now, engineVars, config, agent, wal, walOpen, members,
                       net, handler, stream, everAccepted, appendFailed, snapshot,
                       replayed, restarts, walExists, gc, caller, loading, thread,
                       metrics>>

\* Agent.Shutdown after a failed Start: a.running is clear, so the call
\* returns nil before it reaches gc.Stop, GracefulStop and wal.Close
ShutdownAfterFailedStart(n) ==
    /\ agent[n] \in {"new", "orphaned"}
    /\ StartFailed(n)
    /\ lastCall' = [lastCall EXCEPT ![n] = CallResult("Shutdown", FALSE, "check")]
    /\ UNCHANGED <<now, engine, engineVars, config, agent, wal, walOpen, members,
                   net, handler, stream, everAccepted, appendFailed, snapshot,
                   replayed, restarts, loaded, walExists, gc, caller, loading,
                   thread, metrics>>

FailNext ==
    \/ StartFailsLoad(FailNode) /\ Len(loaded[FailNode]) < MaxCalls
    \/ StartFailsListen(FailNode) /\ Len(loaded[FailNode]) < MaxCalls
    \/ StartFailsGossip(FailNode) /\ Len(loaded[FailNode]) < MaxCalls
    \/ StartAfterFailedGossip(FailNode)
    \/ ShutdownAfterFailedStart(FailNode)
    \/ StartLoad(FailNode)
    \/ StartGossip(FailNode)
    \/ StreamOpen("s1", FailNode)
    \/ \E proto \in StartupProtos : StreamRecv("s1", proto)
    \/ StreamReconcile("s1")
    \/ \E ok \in BOOLEAN : StreamAppend("s1", ok)
    \/ StreamBroadcast("s1", members[FailNode] \ {FailNode})
    \/ StreamClose("s1")
    \/ GCPass(FailNode)
    \/ Tick

FailSpec == StartupInit /\ [][FailNext]_vars

\* ------------------------------------------------------- the trust order
\* The trust order as the specification states it
Dominates(a, b) ==
    \/ a.confidence > b.confidence
    \/ a.confidence = b.confidence /\ a.timestamp > b.timestamp

\* The calls of hist that concern one key
CallsOn(spid) == {i \in 1..Len(hist) : hist[i].kpak.spid = spid}

\* C1: Reconcile(c) accepts and installs c iff nothing is stored under c.spid
\* or c dominates the stored claim; otherwise it rejects and leaves the truth
\* store and the subject index as they were.
C1_ReconcileRule ==
    [][\A k \in KpakUniverse :
        EngineReconcile(k) =>
            LET e == engine[EngineNode]
                should == \/ k.spid \notin DOMAIN e.truthStore
                          \/ Dominates(k, e.truthStore[k.spid])
            IN  /\ ret' = should
                /\ should => /\ engine'[EngineNode].truthStore[k.spid] = k
                              /\ k.spid \in engine'[EngineNode].subjectIndex[k.subject]
                /\ ~should => engine'[EngineNode] = e]_vars

C1_Witness ==
    /\ Len(hist) = 2
    /\ hist[1].accepted /\ hist[1].pre = {}
    /\ ~hist[2].accepted /\ hist[2].pre = {hist[1].kpak}
    /\ hist[2].kpak.confidence = hist[1].kpak.confidence
    /\ hist[2].kpak.timestamp < hist[1].kpak.timestamp
    /\ ret = FALSE

\* C2: of two claims A, B under one key with A dominating B, reconciled in
\* either order into a store holding nothing under the key and with no purge
\* in between, A is believed: arriving second it replaces B, arriving first it
\* is not displaced by B.
C2_DominantWinsEitherOrder ==
    \A i, j \in 1..Len(hist) :
        LET A == hist[i].kpak
            B == hist[j].kpak
        IN  ( /\ i # j
              /\ A.spid = B.spid
              /\ CallsOn(A.spid) = {i, j}
              /\ A.spid \notin DOMAIN base
              /\ Dominates(A, B) )
            => /\ Believed(engine[EngineNode], A.spid) = {A}
               /\ hist[i].accepted
               /\ (i < j) => ~hist[j].accepted
               /\ (j < i) => hist[j].accepted /\ hist[i].pre = {B}

C2_Witness ==
    /\ Len(hist) = 2
    /\ hist[1].kpak.spid = hist[2].kpak.spid
    /\ hist[1].kpak.spid \notin DOMAIN base
    /\ hist[1].kpak.confidence = hist[2].kpak.confidence
    /\ hist[2].kpak.timestamp > hist[1].kpak.timestamp
    /\ hist[2].kpak.object # hist[1].kpak.object
    /\ Believed(engine[EngineNode], hist[1].kpak.spid) = {hist[2].kpak}

\* Two different claims under one key, neither dominating the other, are the
\* only calls on that key since the key was empty: first at i, second at j
TiedPair(i, j) ==
    /\ i < j
    /\ hist[i].kpak.spid = hist[j].kpak.spid
    /\ hist[i].kpak # hist[j].kpak
    /\ CallsOn(hist[i].kpak.spid) = {i, j}
    /\ hist[i].kpak.spid \notin DOMAIN base
    /\ ~Dominates(hist[i].kpak, hist[j].kpak)
    /\ ~Dominates(hist[j].kpak, hist[i].kpak)

\* C9 (as stated): of two claims under one key with equal confidence and
\* equal timestamp, the later-arriving one is believed after both have been
\* reconciled.
C9_LaterArrivalBelieved ==
    \A i, j \in 1..Len(hist) :
        TiedPair(i, j) =>
            Believed(engine[EngineNode], hist[j].kpak.spid) = {hist[j].kpak}

\* C9 (amended): of two claims under one key with equal confidence and equal
\* timestamp, the earlier-arriving one is believed after both have been
\* reconciled: the later one is rejected.
C9_EarlierArrivalBelieved ==
    \A i, j \in 1..Len(hist) :
        TiedPair(i, j) =>
            /\ Believed(engine[EngineNode], hist[i].kpak.spid) = {hist[i].kpak}
            /\ hist[i].accepted
            /\ ~hist[j].accepted

C9_Witness ==
    /\ Len(hist) = 2
    /\ TiedPair(1, 2)
    /\ hist[1].kpak.source # hist[2].kpak.source
    /\ hist[1].kpak.expires_at = 0

\* C10: a claim with the key and the timestamp of the stored claim and the
\* same or a lower confidence is rejected and the stored claim stays believed,
\* whatever its object and source; the same claim reconciled twice in a row
\* is rejected the second time.
C10_StaleOrEqualRejected ==
    /\ \A i \in 1..Len(hist) :
          \A e \in hist[i].pre :
              ( /\ hist[i].kpak.timestamp = e.timestamp
                /\ hist[i].kpak.confidence <= e.confidence )
              => ~hist[i].accepted /\ hist[i].post = {e}
    /\ \A i \in 1..(Len(hist) - 1) :
          hist[i + 1].kpak = hist[i].kpak => ~hist[i + 1].accepted

C10_Witness ==
    /\ Len(hist) = 2
    /\ hist[1].accepted
    /\ hist[2].kpak.spid = hist[1].kpak.spid
    /\ hist[2].kpak.timestamp = hist[1].kpak.timestamp
    /\ hist[2].kpak.confidence < hist[1].kpak.confidence
    /\ hist[2].kpak.object # hist[1].kpak.object
    /\ ~hist[2].accepted
    /\ Believed(engine[EngineNode], hist[1].kpak.spid) = {hist[1].kpak}

\* ------------------------------------------------------------ convergence
\* Every agent runs and knows every other, no datagram is in flight, no
\* handler is at work and no stream is open: nothing moves until a client
\* ingests again
Quiescent(ns) ==
    /\ \A n \in ns : agent[n] = "running" /\ members[n] = ns /\ handler[n] = <<>>
    /\ net = EmptyBag
    /\ \A s \in Streams : stream[s].pc \in {"idle", "done"}

\* c is the maximal accepted claim of its key, and it has not expired
MaximalLive(c) ==
    /\ c \in everAccepted
    /\ ~IsExpired(c, now)
    /\ \A d \in everAccepted : d.spid = c.spid /\ d # c => Dominates(c, d)

\* C3 (as stated): in a connected mesh with no ingest under way, every node
\* believes, for each key, the maximal claim accepted at any node.
C3_ConvergedWhenQuiescent ==
    Quiescent(MeshNodes) =>
        \A c \in everAccepted :
            MaximalLive(c) =>
                \A n \in MeshNodes : Believed(engine[n], c.spid) = {c}

\* ---------------------------------------------------------------- recovery
\* The claims of a truth store that have not expired at clock value t
Unexpired(store, t) ==
    [s \in {x \in DOMAIN store : ~IsExpired(store[x], t)} |-> store[s]]

\* C5 (as stated): when no log append has failed, the store an agent
\* rebuilds from its log after a shutdown holds, once its expired claims are
\* purged, exactly the unexpired claims the store believed at the shutdown.
C5_ReplayRestoresStore ==
    \A n \in MeshNodes :
        ( /\ replayed[n]
          /\ ~appendFailed[n]
          /\ Unexpired(engine[n].truthStore, now) = engine[n].truthStore )
        => engine[n].truthStore = Unexpired(snapshot[n], now)

\* ------------------------------------------------------------------ ingest
Count(seq, x) == Cardinality({i \in 1..Len(seq) : seq[i] = x})

Lines(n) == {wal[n][i] : i \in 1..Len(wal[n])}

\* In the record of a stream every step follows the step it depends on
StepsInOrder(st) ==
    \A i \in 1..Len(st) :
        /\ st[i] \in {"reconcile:accepted", "reconcile:rejected"}
              => i > 1 /\ st[i - 1] = "recv"
        /\ st[i] \in {"append:ok", "append:failed"}
              => i > 1 /\ st[i - 1] = "reconcile:accepted"
        /\ st[i] \in {"broadcast:ok", "broadcast:failed"}
              => i > 1 /\ st[i - 1] = "append:ok"

\* What one step of stream s may do to the log, the network and the counts
IngestStepRule(s) ==
    LET st == stream[s]
        st2 == stream'[s]
        n == st.node
        sameCounts == /\ st2.accepted = st.accepted
                      /\ st2.rejected = st.rejected
                      /\ st2.errors = st.errors
    IN  /\ (st.pc = "reconcile" /\ st2.pc # "reconcile") =>
              /\ wal' = wal /\ net' = net
              /\ st2.accepted = st.accepted /\ st2.errors = st.errors
              /\ \/ st2.pc = "append" /\ st2.rejected = st.rejected
                 \/ st2.pc = "recv" /\ st2.rejected = st.rejected + 1
        /\ (st.pc = "append" /\ st2.pc # "append") =>
              /\ net' = net
              /\ \/ /\ wal'[n] = Append(wal[n], ToJSON(st.kpak[1]))
                    /\ st2.pc = "broadcast"
                    /\ st2.accepted = st.accepted + 1
                    /\ st2.rejected = st.rejected /\ st2.errors = st.errors
                 \/ /\ wal' = wal
                    /\ st2.pc = "recv"
                    /\ st2.rejected = st.rejected + 1
                    /\ Len(st2.errors) = Len(st.errors) + 1
                    /\ st2.accepted = st.accepted
        /\ (st.pc = "broadcast" /\ st2.pc # "broadcast") =>
              /\ wal' = wal
              /\ ToJSON(st.kpak[1]) \in Lines(n)
              /\ sameCounts
              /\ \A pkt \in DOMAIN net' :
                    (pkt \notin DOMAIN net \/ net'[pkt] > net[pkt])
                    => pkt.data = GossipMessage(st.kpak[1]) /\ pkt.dst # n

\* C6: Ingest reconciles, then appends, then broadcasts: a claim is appended
\* only after Reconcile accepted it and broadcast only after its append
\* succeeded; a failed append counts the claim as rejected, records one error
\* and sends nothing; a failed broadcast changes no count; and no datagram
\* enters the network but by the broadcast step of a stream.
C6_ReconcileAppendBroadcast ==
    /\ [](\A s \in Streams : StepsInOrder(stream[s].steps))
    /\ [][ /\ \A s \in Streams : IngestStepRule(s)
           /\ (\E pkt \in DOMAIN net' : pkt \notin DOMAIN net \/ net'[pkt] > net[pkt])
                => \E s \in Streams : stream[s].pc = "broadcast"
                                        /\ stream'[s].pc # "broadcast" ]_vars

C6_Witness ==
    \E s \in Streams :
        /\ stream[s].steps = <<"recv", "reconcile:accepted", "append:failed",
                               "recv", "reconcile:accepted", "append:ok",
                               "broadcast:failed">>
        /\ stream[s].accepted = 1 /\ stream[s].rejected = 1
        /\ Len(stream[s].errors) = 1
        /\ net = EmptyBag

\* C7: when the response of an Ingest stream is sent, accepted + rejected is
\* the number of claims received, accepted is the number of claims that
\* Reconcile accepted and the log took, and errors has one entry for each
\* failed append.
C7_ResponseCounts ==
    \A s \in Streams :
        LET st == stream[s]
        IN  st.pc = "done" =>
              /\ st.accepted + st.rejected = st.received
              /\ st.received = Len(st.submitted)
              /\ st.accepted = Count(st.steps, "append:ok")
              /\ Len(st.errors) = Count(st.steps, "append:failed")
              /\ st.rejected = Count(st.steps, "reconcile:rejected")
                                + Count(st.steps, "append:failed")
              /\ st.accepted <= Len(wal[st.node])

C7_Witness ==
    \E s \in Streams :
        /\ stream[s].pc = "done"
        /\ stream[s].received = 2
        /\ stream[s].accepted = 1
        /\ stream[s].rejected = 1
        /\ Len(stream[s].errors) = 1


\* ------------------------------------------------------- the pluto scenario
\* The confidences of the claims a stream has submitted
Confidences(s) ==
    {stream[s].submitted[i].confidence : i \in 1..Len(stream[s].submitted)}

\* One client submitted the 0.6 claim and the other the 0.99 claim, at
\* different agents; both got their response and no datagram is in flight
PlutoDelivered ==
    /\ \A s \in Streams : stream[s].pc = "done"
    /\ stream["s1"].node # stream["s2"].node
    /\ \E s, t \in Streams : Confidences(s) = {60} /\ Confidences(t) = {99}
    /\ net = EmptyBag

\* C4: with every agent a member at ingest time and every datagram
\* delivered, the 0.6 and the 0.99 claim about one key ingested at different
\* agents leave every agent answering a subject query with exactly one
\* claim, the 0.99 one.
C4_PlutoAnswer ==
    PlutoDelivered =>
        \A n \in Nodes :
            LET answer == QueryBySubject(engine[n], "pluto")
            IN  /\ Cardinality(answer) = 1
                /\ \A k \in answer : /\ k.confidence = 99
                                     /\ k.object = "false"
                                     /\ k.source = "IAU-2006"

\* The agent that ingested nothing holds the 0.99 claim, and the log of the
\* agent that ingested the 0.6 claim shows it took the 0.6 claim first
C4_Witness ==
    /\ PlutoDelivered
    /\ Confidences("s1") = {60}
    /\ \A n \in Nodes : \E k \in QueryBySubject(engine[n], "pluto") : k.confidence = 99
    /\ Len(wal["n1"]) = 2 /\ Len(wal["n2"]) = 1 /\ Len(wal["n3"]) = 1

\* ------------------------------------------------------ concurrent streams
MaxOf(S) == CHOOSE x \in S : \A y \in S : y <= x

\* Both clients streamed claims for the one key to the same agent and got
\* their responses
BothStreamsDone ==
    /\ \A s \in Streams : stream[s].pc = "done" /\ Len(stream[s].submitted) > 0
    /\ stream["s1"].node = stream["s2"].node

\* C8: two streams submitting claims for one key to the same agent leave,
\* under every interleaving of their steps, a believed claim with the
\* maximum confidence over both streams, and at least one accepted claim.
C8_ConcurrentStreamsMax ==
    BothStreamsDone =>
        LET n == stream["s1"].node
            top == MaxOf(Confidences("s1") \cup Confidences("s2"))
            spid == stream["s1"].submitted[1].spid
        IN  /\ \E k \in Believed(engine[n], spid) : k.confidence = top
            /\ stream["s1"].accepted + stream["s2"].accepted >= 1

\* Each stream sent the 0.6 and then the 0.99 claim, and each had one
\* accepted: their steps were interleaved
C8_Witness ==
    /\ BothStreamsDone
    /\ \A s \in Streams :
          /\ Len(stream[s].submitted) = 2
          /\ stream[s].submitted[1].confidence = 60
          /\ stream[s].submitted[2].confidence = 99
          /\ stream[s].accepted = 1 /\ stream[s].rejected = 1

\* ------------------------------------------------------------ no re-gossip
\* The datagrams a step puts on the network
Fresh == net' (-) net

\* A step of the gossip inbound path: a datagram is taken off the network,
\* or a k-pak handler finishes
GossipInboundStep ==
    \/ \E pkt \in DOMAIN net : CopiesIn(pkt, net') < CopiesIn(pkt, net)
    \/ \E n \in Nodes : handler'[n] # handler[n]

\* The broadcasts that sent datagrams, over all streams
BroadcastsSent ==
    Count(stream["s1"].steps, "broadcast:ok") + Count(stream["s2"].steps, "broadcast:ok")

\* C11: a claim received through gossip is never broadcast again, accepted
\* or rejected: the inbound path puts no datagram on the network, and the
\* only datagrams are those of the broadcast step of an ingest, one for
\* each other member.
C11_NoRebroadcast ==
    /\ [](BagCardinality(net) <= (Cardinality(Nodes) - 1) * BroadcastsSent)
    /\ [][ /\ GossipInboundStep => Fresh = EmptyBag
           /\ Fresh # EmptyBag =>
                \E s \in Streams :
                    /\ stream[s].pc = "broadcast" /\ stream'[s].pc # "broadcast"
                    /\ \A pkt \in DOMAIN Fresh :
                          /\ Fresh[pkt] = 1
                          /\ pkt.dst \in members[stream[s].node] \ {stream[s].node}
                          /\ pkt.data = GossipMessage(stream[s].kpak[1]) ]_vars

\* The 0.99 claim was ingested at n1 and the 0.6 claim at n2; n1 rejected the
\* 0.6 claim from gossip, n3 accepted both from gossip, nothing is in flight
C11_Witness ==
    /\ \A s \in Streams : stream[s].pc = "done" /\ Len(stream[s].submitted) = 1
    /\ stream["s2"].node = "n2"
    /\ Confidences("s1") = {99} /\ Confidences("s2") = {60}
    /\ Len(wal["n1"]) = 1 /\ Len(wal["n3"]) = 2
    /\ net = EmptyBag
    /\ \A n \in Nodes : handler[n] = <<>>

\* ------------------------------------------------------------------ expiry
\* A step of EngineSpec that is a RemoveExpiredKpaks call: it neither counts
\* as a Reconcile call nor moves the clock
PurgeStep == ncalls' = ncalls /\ now' = now

\* C12: right after a RemoveExpiredKpaks pass, at the clock value of the
\* pass, every stored claim c has c.expires_at = 0 or now < c.expires_at.
C12_NoExpiredAfterPurge ==
    [][ PurgeStep =>
          \A s \in DOMAIN engine'[EngineNode].truthStore :
              LET c == engine'[EngineNode].truthStore[s]
              IN  c.expires_at = 0 \/ now < c.expires_at ]_vars

\* A pass at clock 2 has just removed the two claims the store held
C12_Witness ==
    /\ now = 2 /\ ncalls = 2 /\ hist = <<>>
    /\ removed = 2
    /\ engine[EngineNode] = NewEngine

\* C13: RemoveExpiredKpaks removes exactly the claims with expires_at # 0
\* and now >= expires_at and returns their number; every other claim stays
\* unchanged with its subject-index entry, and a subject leaves the index
\* only when its last claim was removed.
C13_PurgeRemovesExactlyExpired ==
    [][ PurgeStep =>
          LET store == engine[EngineNode].truthStore
              index == engine[EngineNode].subjectIndex
              gone == {s \in DOMAIN store :
                          store[s].expires_at # 0 /\ now >= store[s].expires_at}
              after == engine'[EngineNode]
          IN  /\ DOMAIN after.truthStore = DOMAIN store \ gone
              /\ \A s \in DOMAIN after.truthStore : after.truthStore[s] = store[s]
              /\ removed' = Cardinality(gone)
              /\ DOMAIN after.subjectIndex =
                    {sub \in DOMAIN index : index[sub] \ gone # {}}
              /\ \A sub \in DOMAIN after.subjectIndex :
                    after.subjectIndex[sub] = index[sub] \ gone ]_vars

\* A pass at clock 2 has just removed one claim of a subject and left the
\* subject's other claim, which carries no expiry, with its index entry
C13_Witness ==
    /\ now = 2 /\ ncalls = 2 /\ hist = <<>>
    /\ removed = 1
    /\ \E s \in DOMAIN engine[EngineNode].truthStore :
          /\ engine[EngineNode].truthStore[s].expires_at = 0
          /\ engine[EngineNode].subjectIndex["Alice"] = {s}

\* --------------------------------------------------------- TTL and the GC
\* The k-paks the agent of ExpirySpec can build from what its client sends
ExpiryKpaks ==
    {protoToKpak(p, ttl, t) : p \in ExpiryProtos, ttl \in {0, 1}, t \in 1..MaxClock}

\* A query for the subject of c at engine e returns c
Returned(e, c) == c \in QueryBySubject(e, c.subject)

\* C14: with the collector running, a stored claim with a TTL is returned
\* by queries up to its expiry (it leaves the answers only once it has
\* expired, or when another claim takes its key), and once its expiry has
\* passed a GC pass eventually removes it, after which a query for its
\* subject does not return it.
C14_ReturnedUntilExpiryThenCollected ==
    /\ [][ \A c \in ExpiryKpaks :
              ( /\ c.expires_at # 0
                /\ Returned(engine[ExpiryNode], c)
                /\ ~Returned(engine'[ExpiryNode], c) )
              => \/ now >= c.expires_at
                 \/ \E d \in Believed(engine'[ExpiryNode], c.spid) : d # c ]_vars
    /\ \A c \in ExpiryKpaks :
          ( /\ GCRunning(ExpiryNode)
            /\ c.expires_at # 0 /\ now >= c.expires_at
            /\ Returned(engine[ExpiryNode], c) )
          ~> ~Returned(engine[ExpiryNode], c)

\* The agent runs with a default TTL of one second; the claim it accepted
\* at clock 1 has expired at clock 2 and a GC pass has emptied the answer
C14_Witness ==
    /\ GCRunning(ExpiryNode)
    /\ config[ExpiryNode].DefaultTTLSeconds = 1
    /\ now = 2
    /\ stream["s1"].accepted = 1 /\ Len(stream["s1"].submitted) = 1
    /\ stream["s1"].submitted[1].expires_at = 2
    /\ QueryBySubject(engine[ExpiryNode], "server1") = {}

\* ------------------------------------------------------- claims on replay
\* The orders in which the lines of a log file can be written
Reorderings(file) ==
    {[i \in 1..Len(file) |-> file[p[i]]] : p \in Permutations(1..Len(file))}

\* C15 (as stated): the store an agent rebuilds from its log depends only on
\* the records in the log: every reordering of the lines replays to the same
\* believed claim under every key.
C15_ReplayOrderIndependent ==
    Len(loaded[ReplayNode]) = 1 =>
        \A other \in Reorderings(wal[ReplayNode]) :
            loadFromWAL(NewEngine, walExists[ReplayNode], other).engine.truthStore
                = engine[ReplayNode].truthStore

\* C16: a further replay of the same log into the store the first replay
\* produced rejects every record and leaves the store as it was.
C16_ReplayIdempotent ==
    [][ ( /\ Len(loaded[ReplayNode]) >= 1
          /\ Len(loaded'[ReplayNode]) = Len(loaded[ReplayNode]) + 1 )
        => /\ engine' = engine
           /\ loaded'[ReplayNode][Len(loaded'[ReplayNode])].accepted = 0
           /\ loaded'[ReplayNode][Len(loaded'[ReplayNode])].kpaks
                 = loaded[ReplayNode][1].kpaks ]_vars

\* The log held three records under two keys; the first replay accepted two
\* of them and the second replay none
C16_Witness ==
    /\ Len(loaded[ReplayNode]) = 2
    /\ Len(loaded[ReplayNode][1].kpaks) = 3
    /\ loaded[ReplayNode][1].accepted = 2
    /\ loaded[ReplayNode][2].accepted = 0
    /\ Cardinality(DOMAIN engine[ReplayNode].truthStore) = 2

\* The lines of a log file that are records of claims
RecordLines == {l \in ReplayLines : \E k \in ReplayKpaks : l = ToJSON(k)}

RECURSIVE RecordsOf(_)
\* The claims of the record lines of a file, in file order
RecordsOf(file) ==
    IF file = <<>> THEN <<>>
    ELSE IF Head(file) \in RecordLines
         THEN <<CHOOSE k \in ReplayKpaks : ToJSON(k) = Head(file)>>
                 \o RecordsOf(Tail(file))
         ELSE RecordsOf(Tail(file))

StoredClaims(e) == {e.truthStore[s] : s \in DOMAIN e.truthStore}

\* The subjects and predicates a client may ask about
AskedSubjects == EngineSubjects \cup {"Bob", "Carol"} \cup {sp[1] : sp \in KeyPairs}
AskedPredicates == EnginePredicates \cup {"weight"} \cup {sp[2] : sp \in KeyPairs}

\* C17: in every state of the store QueryBySubject(s) returns exactly the
\* stored claims whose subject is s, which are the claims under the keys of
\* the subject's index entry, and nothing for an unknown subject; a query
\* with a predicate returns at most one claim, the one stored for that
\* subject and predicate.
C17_QueryAnswers ==
    LET e == engine[EngineNode]
    IN  \A s \in AskedSubjects :
          /\ QueryBySubject(e, s) = {c \in StoredClaims(e) : c.subject = s}
          /\ s \in DOMAIN e.subjectIndex =>
                /\ e.subjectIndex[s] \subseteq DOMAIN e.truthStore
                /\ QueryBySubject(e, s) = {e.truthStore[k] : k \in e.subjectIndex[s]}
          /\ s \notin DOMAIN e.subjectIndex => QueryBySubject(e, s) = {}
          /\ \A p \in AskedPredicates :
                /\ QueryBySubjectPredicate(e, s, p)
                      = {c \in StoredClaims(e) : c.subject = s /\ c.predicate = p}
                /\ Cardinality(QueryBySubjectPredicate(e, s, p)) <= 1

CallReturns(op, n) == lastCall'[n] # lastCall[n] /\ lastCall'[n].op = op

\* Everything but the record of what the last call returned
AgentState ==
    <<now, engine, ret, hist, base, ncalls, removed, config, agent, wal,
      walOpen, members, net, handler, stream, everAccepted, appendFailed,
      snapshot, replayed, restarts, loaded, walExists>>

\* C20: a Start call on an agent whose running flag is set returns an error
\* and leaves everything as it was (no replay of the log, no server, no
\* gossip, no change of any state), and a Shutdown call on an agent whose
\* running flag is clear returns nil and leaves everything as it was.
C20_RepeatedCallsChangeNothing ==
    [][\A n \in Nodes :
          /\ (agent[n] = "running" /\ CallReturns("Start", n))
                => (lastCall'[n].err /\ UNCHANGED AgentState)
          /\ (agent[n] \in {"new", "stopped"} /\ CallReturns("Shutdown", n))
                => (~lastCall'[n].err /\ UNCHANGED AgentState)]_vars

\* A second Start was refused on a running agent that holds a claim in its
\* store and in its log, after the agent had been shut down and started again
C20_Witness ==
    /\ agent[LifecycleNode] = "running"
    /\ lastCall[LifecycleNode] = CallResult("Start", TRUE, "check")
    /\ DOMAIN engine[LifecycleNode].truthStore # {}
    /\ wal[LifecycleNode] # <<>>
    /\ restarts = 1

\* Shutdown has completed on the agent object of node n: Shutdown is the only
\* caller of wal.Close, and nothing opens the file again
HasBeenShutDown(n) == agent[n] \notin {"absent", "new"} /\ ~walOpen[n]

\* C21: the lifecycle only moves forward through initialized, running,
\* stopped: whatever Start and Shutdown calls are made, an agent that has
\* been shut down is never running again.
C21_StoppedNeverRunsAgain ==
    \A n \in Nodes : HasBeenShutDown(n) => agent[n] # "running"

\* ------------------------------------------------------- order of Start
\* In this step a claim that arrived at node n by an Ingest stream or by a
\* gossip datagram is reconciled
TrafficReconciles(n) ==
    \/ \E s \in Streams : /\ stream[s].node = n
                          /\ stream[s].pc = "reconcile"
                          /\ stream'[s].pc # "reconcile"
    \/ \E pkt \in DOMAIN net : /\ pkt.dst = n
                               /\ CopiesIn(pkt, net') < CopiesIn(pkt, net)

\* loadFromWAL has returned on node n: every k-pak it loaded is reconciled
ReplayComplete(n) == loaded[n] # <<>> /\ loading[n] = <<>>

\* The k-paks of the running load that its loop has reconciled already
ReplayedSoFar(n) ==
    LET all == loaded[n][Len(loaded[n])].kpaks
    IN  SubSeq(all, 1, Len(all) - Len(loading[n]))

\* C22: the replay of the log completes before the server, gossip and the
\* collector are started: no claim that arrives by ingest or by gossip is
\* reconciled and no collector runs before every loaded record has been
\* reconciled; while records are left the store holds what the replay put
\* there and nothing else.
C22_ReplayBeforeTraffic ==
    [][\A n \in Nodes :
          /\ (TrafficReconciles(n) \/ GCRunning(n)) => ReplayComplete(n)
          /\ loading[n] # <<>> =>
                engine[n] = ReplayInto(NewEngine, ReplayedSoFar(n))]_vars

\* The agent replayed a log of two records, and since then a claim from its
\* client and a claim gossiped by its peer were reconciled at it
C22_Witness ==
    /\ Len(loaded[StartupNode]) = 1
    /\ Len(loaded[StartupNode][1].kpaks) >= 2
    /\ stream["s1"].node = StartupNode /\ stream["s1"].accepted > 0
    /\ handler[StartupNode] # <<>>
    /\ GCRunning(StartupNode)

\* --------------------------------------------------- result of a broadcast
\* In this step stream s calls BroadcastKpak
BroadcastStep(s) == stream[s].pc = "broadcast" /\ stream'[s].pc # "broadcast"

\* The outcome of the step a stream took last
LastStep(st) == st.steps[Len(st.steps)]

\* The datagrams a step put on the network
Sent == net' (-) net

\* C23: BroadcastKpak returns an error and sends nothing exactly when gossip
\* is not running; while it is running it returns success for any number of
\* peers, none included, whichever sends to single peers fail, and sends to
\* members other than the local node only.
C23_BroadcastFailsOnlyWhenStopped ==
    [][\A s \in Streams :
          BroadcastStep(s) =>
            LET n == stream[s].node
            IN  IF GossipRunning(n)
                THEN /\ LastStep(stream'[s]) = "broadcast:ok"
                     /\ net \sqsubseteq net'
                     /\ \A pkt \in BagToSet(Sent) :
                            /\ pkt.dst \in members[n] \ {n}
                            /\ CopiesIn(pkt, Sent) = 1
                ELSE /\ LastStep(stream'[s]) = "broadcast:failed"
                     /\ net' = net]_vars

\* A broadcast on a running node with a peer returned success although the
\* one send failed: nothing is in flight and the peer has learnt nothing
C23_Witness ==
    /\ stream["s1"].pc = "recv" /\ stream["s1"].steps # <<>>
    /\ LastStep(stream["s1"]) = "broadcast:ok"
    /\ members[stream["s1"].node] = MeshNodes
    /\ net = EmptyBag
    /\ \A n \in MeshNodes \ {stream["s1"].node} :
            DOMAIN engine[n].truthStore = {} /\ handler[n] = <<>>

\* ------------------------------------------------------ protos to k-paks
\* In this step stream s receives a proto and converts it
ConvertStep(s) == stream[s].pc = "recv" /\ stream'[s].pc = "reconcile"

\* In this step the engine accepts the k-pak stream s converted
AcceptStep(s) == stream[s].pc = "reconcile" /\ stream'[s].pc = "append"

\* The proto the client sent for k-pak k
ProtoOf(k) == CHOOSE proto \in ConversionProtos : proto.source = k.source

\* C24: on ingest the claim's expiresAt is the inbound one when that is
\* greater than 0, past or not, else now + defaultTtlSeconds when the node
\* has a default TTL, else 0; its timestamp is the inbound one when that is
\* greater than 0, else now; its id and spid are those computed from the
\* resulting fields; and that claim is what the store holds once accepted.
C24_IngestStampsClaim ==
    [][\A s \in Streams :
          /\ ConvertStep(s) =>
                LET k == stream'[s].kpak[1]
                    proto == ProtoOf(k)
                    ttl == config[stream[s].node].DefaultTTLSeconds
                IN  /\ k.expires_at = IF proto.expires_at > 0 THEN proto.expires_at
                                      ELSE IF ttl > 0 THEN now + ttl
                                      ELSE 0
                    /\ k.timestamp = IF proto.timestamp > 0 THEN proto.timestamp
                                     ELSE now
                    /\ k.id = generateID(k) /\ k.spid = GenerateSPID(k)
                    /\ k.subject = proto.subject /\ k.predicate = proto.predicate
                    /\ k.object = proto.object /\ k.confidence = proto.confidence
          /\ AcceptStep(s) =>
                LET k == stream[s].kpak[1]
                IN  engine'[stream[s].node].truthStore[k.spid] = k]_vars

\* At clock 2 the store holds a claim that came without a timestamp and with
\* an expires_at of 1: stamped 2, expired on arrival, stored all the same
C24_Witness ==
    /\ now = 2
    /\ \E spid \in DOMAIN engine[ConversionNode].truthStore :
          LET k == engine[ConversionNode].truthStore[spid]
          IN  k.source = "t0-e1" /\ k.timestamp = 2 /\ k.expires_at = 1

\* ------------------------------------------- concurrent Start and Stop
\* C25: whatever the interleaving of goroutines that each call Start and
\* later Stop on one collector, every call returns (none panics) and once
\* all of them have finished the collector is not running.
C25_StartStopAlwaysReturn ==
    /\ \A c \in GCCallers : caller[c] # "panicked"
    /\ (\A c \in GCCallers : caller[c] = "done") => ~gc[CollectorNode].running

\* ------------------------------------------------------ the subject index
\* C26: in every state of the store that Reconcile calls and purges lead to,
\* every entry spid -> c of the truth store has c.subject in the subject
\* index, and the subject's set holds spid.
C26_StoredClaimsIndexed ==
    \A n \in Nodes :
        \A spid \in DOMAIN engine[n].truthStore :
            LET c == engine[n].truthStore[spid]
            IN  /\ c.subject \in DOMAIN engine[n].subjectIndex
                /\ spid \in engine[n].subjectIndex[c.subject]

\* A purge removed one of the two claims of subject "a"; the other is stored
\* and indexed
C26_Witness ==
    /\ removed = 1
    /\ \E spid \in DOMAIN engine[EngineNode].truthStore :
            engine[EngineNode].truthStore[spid].subject = "a"

\* C27: in every state of the store that Reconcile calls and purges lead to,
\* every subject of the subject index has a non-empty set of keys, every key
\* of the set is in the truth store with a claim of that subject, and so the
\* number of indexed subjects (Stats' total_subjects) is the number of
\* distinct subjects of the stored claims.
C27_IndexResolves ==
    \A n \in Nodes :
        LET e == engine[n]
        IN  /\ \A sub \in DOMAIN e.subjectIndex :
                    /\ e.subjectIndex[sub] # {}
                    /\ \A spid \in e.subjectIndex[sub] :
                            /\ spid \in DOMAIN e.truthStore
                            /\ e.truthStore[spid].subject = sub
            /\ Cardinality(DOMAIN e.subjectIndex) =
                    Cardinality({e.truthStore[spid].subject :
                                    spid \in DOMAIN e.truthStore})

\* ------------------------------------------------ how a believed claim changes
\* The claim stored under a key at an agent after a step
BelievedAfter(n, spid) == Believed(engine'[n], spid)

\* C28: in every step of the mesh (ingest, gossip delivery, replay, collector
\* pass) the claim an agent believes under a key either stays exactly as it
\* is, field by field, or is replaced by a claim that dominates it, or is
\* removed by a collector pass at a time at which it has expired; so between
\* two removals the believed claims of a key strictly increase in the trust
\* order.
C28_BelievedChangesByDominance ==
    [][\A n \in MeshNodes : \A spid \in DOMAIN engine[n].truthStore :
          LET old == engine[n].truthStore[spid]
          IN  \/ BelievedAfter(n, spid) = {old}
              \/ \E new \in BelievedAfter(n, spid) : Dominates(new, old)
              \/ /\ BelievedAfter(n, spid) = {}
                 /\ IsExpired(old, now)
                 /\ GCPass(n)]_vars

\* An agent has accepted and logged a claim without expiry, then a
\* dominating claim under the same key that expires, and its collector has
\* removed that one: nothing is believed any more.
C28_Witness ==
    \E n \in MeshNodes :
        /\ Len(wal[n]) = 2
        /\ LET a == FromJSON(wal[n][1]).kpak
               b == FromJSON(wal[n][2]).kpak
           IN  /\ a.spid = b.spid
               /\ a.expires_at = 0
               /\ b.expires_at # 0
               /\ Dominates(b, a)
               /\ IsExpired(b, now)
        /\ engine[n].truthStore = <<>>

\* ------------------------------------------------------ the order of the log
\* The k-pak of the i-th record of an agent's log
Record(n, i) == FromJSON(wal[n][i]).kpak

\* C29: at every agent, whatever the interleaving of ingest streams and
\* gossip deliveries, the records of the log are in the order in which the
\* store accepted their claims: of two records under one key the later one
\* dominates the earlier one.  (No claim is removed in this mesh, so the
\* claims a store accepts under a key strictly increase in the trust order.)
C29_LogInAcceptanceOrder ==
    \A n \in Nodes : \A i, j \in 1..Len(wal[n]) :
        (i < j /\ Record(n, i).spid = Record(n, j).spid)
            => Dominates(Record(n, j), Record(n, i))

\* ------------------------------------------------------------- the mutexes
\* The mutex a goroutine is about to take, as a set of at most one
Wanted(t) ==
    IF thread[t].pc \in DOMAIN LockSteps THEN {LockSteps[thread[t].pc]} ELSE {}

\* t cannot go on before u has: t waits for a mutex u holds, or for the
\* collector's loop to return (wg.Wait), or for a call in progress to end
\* (GracefulStop)
WaitsFor(t, u) ==
    \/ \E w \in Wanted(t) : u \in Holders(w.lock, w.mode)
    \/ /\ t = "shutdown" /\ thread[t].pc = "gc.Stop:Wait"
       /\ u = "collector" /\ thread[u].pc # "idle"
    \/ /\ t = "shutdown" /\ thread[t].pc = "GracefulStop"
       /\ \/ u = "ingest" /\ thread[u].pc \notin {"idle", "done"}
          \/ u = "query" /\ thread[u].pc # "idle"

RECURSIVE WaitClosure(_)
WaitClosure(S) ==
    LET more == S \cup {u \in LockThreads : \E v \in S : WaitsFor(v, u)}
    IN  IF more = S THEN S ELSE WaitClosure(more)

\* t waits, directly or through others, for itself
InWaitCycle(t) == t \in WaitClosure({u \in LockThreads : WaitsFor(t, u)})

\* one step of goroutine t
ThreadStep(t) ==
    \/ Acquire(t)
    \/ Release(t)
    \/ t \in {"ingest", "gossip"} /\ (DoReconcile(t) \/ DoAppend(t))
    \/ t = "ingest" /\ (IngestEnd \/ IngestBroadcast
                            \/ \E proto \in LockProtos : IngestRecv(proto))
    \/ t = "collector" /\ DoRemoveExpired
    \/ t = "query" /\ DoQuery
    \/ t = "shutdown" /\ (StopCollector \/ WaitCollector \/ StopGossip
                              \/ GracefulStop \/ CloseLog \/ ClearRunning)

\* The mutexes of t in the order taken, the one it is asking for last
LockOrder(t) ==
    [i \in 1..Len(thread[t].held) |-> thread[t].held[i].lock]
        \o [i \in 1..Cardinality(Wanted(t)) |-> (CHOOSE w \in Wanted(t) : TRUE).lock]

NoDeadlock ==
    \A t \in LockThreads :
        /\ ~InWaitCycle(t)
        /\ (thread[t].pc \notin {"idle", "done"} /\ \A u \in LockThreads : ~WaitsFor(t, u))
                => ENABLED ThreadStep(t)

StoreBeforeLog ==
    \A t \in LockThreads : \A i, j \in 1..Len(LockOrder(t)) :
        (LockOrder(t)[i] = "log" /\ LockOrder(t)[j] = "store") => j < i

\* C30: in no interleaving of an ingest stream, a query, the gossip inbound
\* handler, a collector pass and Shutdown does a goroutine wait for itself,
\* directly or through the goroutines it waits for, and a goroutine in the
\* middle of its work that waits for nobody can take a step; no goroutine
\* asks for the store's mutex while it holds the log's mutex; and a step that
\* sends datagrams of a broadcast is never a step of the gossip inbound
\* handler and never a step of a goroutine holding the store's or the log's
\* mutex.
C30_NoDeadlockLockOrder ==
    /\ [](NoDeadlock /\ StoreBeforeLog)
    /\ [][\A t \in LockThreads :
            (thread'[t] # thread[t] /\ ~(net' \sqsubseteq net))
                => /\ t # "gossip"
                   /\ ~Holds(t, "store")
                   /\ ~Holds(t, "log")]_vars

\* Contention: while Shutdown holds the agent's mutex and waits in
\* GracefulStop for the Ingest stream, the stream waits for the log's mutex,
\* which the gossip handler holds, and the collector, whose stopChan is
\* closed, has finished its pass.
C30_Witness ==
    /\ thread["shutdown"].pc = "GracefulStop"
    /\ Holds("shutdown", "agent")
    /\ thread["ingest"].pc = "Append:Lock"
    /\ thread["gossip"].pc = "Append"
    /\ WaitsFor("shutdown", "ingest")
    /\ WaitsFor("ingest", "gossip")
    /\ engine[LockNode].truthStore # <<>>

\* ------------------------------------------------------ the order of Shutdown
\* The positions of Shutdown from its call of GracefulStop on
AfterGossipStop ==
    {"GracefulStop", "Close:Lock", "Close", "Close:Unlock", "Shutdown:Return",
     "Shutdown:Unlock", "done"}

\* Shutdown stops the collector before gossip, gossip before the server, the
\* server before it closes the log
ShutdownInOrder ==
    /\ agent[LockNode] # "running" => ~gc[LockNode].running
    /\ thread["shutdown"].pc \in AfterGossipStop => agent[LockNode] # "running"
    /\ ~walOpen[LockNode] =>
            /\ thread["shutdown"].pc \in AfterGossipStop \ {"GracefulStop", "Close:Lock"}
            /\ thread["ingest"].pc \in {"idle", "done"}
            /\ thread["query"].pc = "idle"
            /\ thread["collector"].pc = "idle"

\* No Ingest stream is in WAL.Append on a closed log
NoIngestOnClosedLog == thread["ingest"].pc = "Append" => walOpen[LockNode]

\* C31: Shutdown stops the collector, then gossip, then the server, then
\* closes the log; the log is closed only after the streams in progress have
\* ended and the collector and gossip have stopped; and neither an Ingest
\* stream nor the gossip k-pak handler is in WAL.Append on a log that
\* Shutdown has closed.
C31_ShutdownOrderNoLateAppend ==
    /\ ShutdownInOrder
    /\ \A t \in {"ingest", "gossip"} : thread[t].pc = "Append" => walOpen[LockNode]

\* ------------------------------------------------- the collector's task
\* A purge pass is in progress
PassInProgress == thread["collector"].pc # "idle"

\* C32: whatever Start and Stop calls are made on a collector, at most one
\* run goroutine (periodic task) exists, and with it at most one purge pass
\* is in progress; a Start on a disabled or on a running collector launches
\* nothing and leaves the collector, the store and a pass in progress as
\* they are.
C32_AtMostOneTask ==
    /\ [](gc[TaskNode].loops + (IF caller["g1"] = "waiting" /\ PassInProgress
                                THEN 1 ELSE 0) <= 1)
    /\ [][(TaskStart /\ (~config[TaskNode].GCEnabled \/ gc[TaskNode].running))
            => UNCHANGED <<gc, engine, thread>>]_vars

\* Start has just returned from its check on a collector that is running
\* with its one task, which is in the middle of a pass
C32_Witness ==
    /\ lastCall[TaskNode] = CallResult("gc.Start", FALSE, "check")
    /\ gc[TaskNode].running
    /\ gc[TaskNode].loops = 1
    /\ thread["collector"].pc = "RemoveExpiredKpaks"

\* C33: once a Stop that found the collector running has returned, the run
\* goroutine has exited: no pass is in progress and, as long as the collector
\* is not started again, no task exists and no pass can start; a Stop on a
\* collector that is not running returns at once and changes nothing.
C33_StopWaitsForTask ==
    /\ []((caller["g1"] = "idle" /\ ~gc[TaskNode].running)
            => /\ ~PassInProgress
               /\ gc[TaskNode].loops = 0
               /\ ~ENABLED TickerFires)
    /\ [][(TaskStop /\ ~gc[TaskNode].running)
            => /\ UNCHANGED <<gc, engine, thread, caller>>
               /\ lastCall'[TaskNode] = CallResult("gc.Stop", FALSE, "check")]_vars

\* Stop is at wg.Wait while the task is in the middle of a pass
C33_Witness ==
    /\ caller["g1"] = "waiting"
    /\ ~gc[TaskNode].running
    /\ gc[TaskNode].closed
    /\ thread["collector"].pc = "RemoveExpiredKpaks"
    /\ Holds("collector", "store")

\* C34: a collector that is enabled and running, whether started for the
\* first time or started again after a Stop, has a task that answers the
\* ticker: a run goroutine exists and a tick makes it start a purge pass.
C34_StartedCollectorPurges ==
    (Alive /\ gc[TaskNode].running)
        => /\ gc[TaskNode].loops = 1
           /\ GCRunning(TaskNode)

\* ------------------------------------------------ one broadcast, one send
\* The datagrams a step sent to node m
SentTo(m) == {pkt \in BagToSet(Sent) : pkt.dst = m}

\* C35: one BroadcastKpak call puts on the network at most one datagram for
\* each member of the list at the time of the call, none for the local node
\* and none for a node that is not a member; each datagram is the envelope of
\* the claim; and the call is made once for an accepted claim: after it,
\* whether sends failed or not, the stream waits for its next claim.
C35_AtMostOncePerMember ==
    [][\A s \in Streams :
          BroadcastStep(s) =>
            LET n == stream[s].node
            IN  /\ \A m \in Nodes :
                      /\ Cardinality(SentTo(m)) <= 1
                      /\ \A pkt \in SentTo(m) :
                            /\ CopiesIn(pkt, Sent) = 1
                            /\ pkt.data = GossipMessage(stream[s].kpak[1])
                      /\ (m = n \/ m \notin members[n]) => SentTo(m) = {}
                /\ stream'[s].pc = "recv"]_vars

\* A broadcast on a node with one peer has put one datagram for the peer on
\* the network, and the stream is back at its receive
C35_Witness ==
    \E s \in MeshStreams :
        /\ stream[s].pc = "recv"
        /\ Len(stream[s].steps) > 0
        /\ LastStep(stream[s]) = "broadcast:ok"
        /\ members[stream[s].node] = MeshNodes
        /\ BagCardinality(net) = 1
        /\ \E pkt \in BagToSet(net) :
              /\ pkt.dst \in MeshNodes \ {stream[s].node}
              /\ pkt.data = GossipMessage(stream[s].kpak[1])

\* --------------------------------------------------- unusable gossip input
\* A datagram the inbound path cannot use: its bytes are no JSON text, its
\* type tag is not "kpak", or its payload is not the JSON text of a k-pak
Malformed(data) ==
    \/ "type" \notin DOMAIN data
    \/ data.type # "kpak"
    \/ Len(data.payload) # 9

\* C36: a step that takes a datagram off the network whose envelope is not
\* valid JSON, whose type tag is not "kpak" or whose payload does not
\* deserialize as a claim hands nothing to the claim handler and leaves the
\* truth store, the log and the metrics as they were.
C36_MalformedInboundDropped ==
    [][\A pkt \in DOMAIN net :
            (net' = net (-) SetToBag({pkt}) /\ Malformed(pkt.data))
                => UNCHANGED <<engine, wal, metrics, handler>>]_vars

\* The three unusable datagrams were delivered, and so was a gossip message
\* that the handler counted
C36_Witness ==
    /\ \A pkt \in DOMAIN net : pkt.dst = InboundNode => ~Malformed(pkt.data)
    /\ metrics[InboundNode].totalIngestedKpaks > 0
    /\ handler[InboundNode] = <<>>

\* ------------------------------------------------------ no update is lost
\* The calls of RecordIngest that have returned and the Query calls that
\* have returned
IngestCallsDone == thread["ingest"].calls + thread["gossip"].calls
QueryCallsDone == thread["query"].calls
NoCallInProgress == \A t \in LockThreads : thread[t].pc = "idle"

\* C37: once every RecordIngest and RecordQuery call made so far has
\* returned, totalIngested is the number of RecordIngest calls and the sum
\* of totalAccepted and totalRejected, and totalQueries is the number of
\* Query calls, whatever the queries returned.
C37_NoLostUpdate ==
    NoCallInProgress =>
        LET m == metrics[MetricsNode]
        IN  /\ m.totalIngestedKpaks = IngestCallsDone
            /\ m.totalIngestedKpaks = m.totalAcceptedKpaks + m.totalRejectedKpaks
            /\ m.totalQueries = QueryCallsDone

\* Every caller has made all its calls, some k-paks were accepted and some
\* rejected
C37_Witness ==
    /\ NoCallInProgress
    /\ IngestCallsDone = 2 * MaxCalls
    /\ QueryCallsDone = MaxCalls
    /\ metrics[MetricsNode].totalAcceptedKpaks > 0
    /\ metrics[MetricsNode].totalRejectedKpaks > 0

\* ------------------------------------------- what the caller was told
\* A step in which Ingest counts the k-pak of stream s as rejected
CountedRejected(s) == stream'[s].rejected = stream[s].rejected + 1

\* C38: a step in which Ingest counts a claim as rejected leaves the store
\* without that claim as installed by this submission: a step that rejects
\* at Reconcile changes no store, and after a step that rejects because the
\* log append failed the store does not believe the claim and a query for
\* its subject does not return it.
C38_RejectedNotInstalled ==
    [][\A s \in Streams :
            CountedRejected(s) =>
                LET n == stream[s].node
                    k == stream[s].kpak[1]
                IN  /\ engine' = engine
                    /\ stream[s].pc = "append" =>
                            /\ k \notin Believed(engine'[n], k.spid)
                            /\ k \notin QueryBySubject(engine'[n], k.subject)]_vars

\* ------------------------------------------------ after a failed Start
\* C39: when Start has returned an error from the log load, the network
\* bind or the gossip start, the agent is as NewAgent left it: it is not
\* running, its network service does not serve, its store holds no replayed
\* claim, and neither the mesh membership nor the collector was started.
C39_FailedStartLeavesNothing ==
    \A n \in Nodes :
        StartFailed(n) =>
            /\ agent[n] = "new"
            /\ engine[n] = NewEngine
            /\ members[n] = {}
            /\ gc[n] = NewGarbageCollector

\* ------------------------------------------------- expiry and Reconcile
\* A step in which Ingest's Reconcile call on the k-pak of stream s returns
ReconcileStep(s) == stream[s].pc = "reconcile" /\ stream'[s].pc # "reconcile"

\* C40: the outcome of a Reconcile call depends on the stored claim and the
\* trust order only, not on the clock or on expiry: the claim is accepted
\* iff nothing is stored under its key or it dominates what is stored; an
\* incoming claim that has expired already is accepted on an empty key; a
\* stored claim that has expired but was not yet purged makes Reconcile
\* reject an incoming claim that does not dominate it, and the store stays
\* as it is.
C40_ReconcileIgnoresExpiry ==
    [][\A s \in Streams :
            ReconcileStep(s) =>
                LET n == stream[s].node
                    k == stream[s].kpak[1]
                    pre == Believed(engine[n], k.spid)
                    accepted == stream'[s].pc = "append"
                IN  /\ accepted <=> (pre = {} \/ \E c \in pre : Dominates(k, c))
                    /\ (IsExpired(k, now) /\ pre = {})
                            => accepted /\ Believed(engine'[n], k.spid) = {k}
                    /\ (\E c \in pre : IsExpired(c, now) /\ ~Dominates(k, c))
                            => ~accepted /\ engine' = engine]_vars

\* Ingest has just rejected a claim because of a stored claim that had
\* expired before the incoming claim arrived and is still in the store
C40_Witness ==
    \E s \in Streams :
        /\ stream[s].pc = "recv"
        /\ stream[s].steps # <<>>
        /\ stream[s].steps[Len(stream[s].steps)] = "reconcile:rejected"
        /\ \E c \in Believed(engine[stream[s].node], stream[s].kpak[1].spid) :
                /\ c.expires_at # 0
                /\ c.expires_at <= stream[s].kpak[1].timestamp
                /\ c # stream[s].kpak[1]

==========================================================================
